---- MODULE Spec2Model ----
(***************************************************************************)
(* A model of the moexer portfolio analyser: the seven-stage per-ticker    *)
(* analysis pipeline (analyzers/portfolio_analyzer.py), its concurrent     *)
(* controller (analyzers/async_portfolio_analyzer.py) and the rebalancing  *)
(* allocator (analyzers/rebalancing_analyzer.py).                          *)
(*                                                                         *)
(* Python values are records [kind, pieces]: a str is the sequence of the  *)
(* pieces it is the concatenation of, None has kind "none", a list has     *)
(* kind "list" and its items as pieces.  The Russian string literals of    *)
(* the source are written in Latin transliteration, the original is in the *)
(* comment beside each.                                                    *)
(***************************************************************************)
EXTENDS Integers, Sequences, FiniteSets, TLC

VARIABLES
    \* recommendation extraction on one final-decision text
    text, recSeq, recAsync,
    \* one pipeline run for one position, under either controller
    mode, st, pc, trace, calls, errors, outcome,
    \* analyze_portfolio_async: the semaphore, the portfolio's positions, the
    \* collaborator outcomes of each position's run, each task's place, state
    \* and outcome, the controller's place and the mapping it returns
    max_concurrent_tasks, semaphore, positions, scenario, tpc, tst, tres,
    ctl, results,
    \* suggest_rebalancing: its arguments (the recommendation mapping in
    \* iteration order, the portfolio), its locals, the price lookups made so
    \* far, and the cash pool as it entered the buy phase; the price_getter the
    \* analyzer was constructed with
    price_getter, analysis_results, portfolio, rpc, idx, cash, rebalancing_suggestions,
    buy_tickers, lookups, buy_start_cash,
    \* retry_on_failure: the decorator's max_retries and delay, the loop
    \* variable, the wrapper's place, the invocations and sleeps so far, what
    \* the caller got; the function that is wrapped and what each of its
    \* invocations' underlying request did
    max_retries, delay, attempt, retry_pc, retry_events, retry_outcome,
    wrapped, request_log,
    \* the process-wide PerformanceMonitor: counters, errors, the retained
    \* execution_times of the instrumented service and the number of samples
    \* recorded so far; the last instrumented call (what the wrapped function
    \* did, what the caller got); the threads running instrumented calls
    counters, monitor_errors, execution_times, clock, last_call,
    thread_pc, thread_tmp, thread_outcome,
    \* PortfolioPosition(ticker=.., quantity=..) and Portfolio.from_dict on the
    \* same entry; AnalysisResult(.., confidence=.., ..)
    in_ticker, in_quantity, built, built_from_dict, in_confidence, built_result,
    \* Portfolio(positions=[..]) and Portfolio.from_dict({..}) on several
    \* tickers: the tickers given, and what was built
    in_tickers, built_portfolio,
    \* final_analysis cutting one stage output down for its prompt: the state
    \* field read, its text, and the summary that goes into the prompt
    summary_field, stage_text, prompt_summary

extractVars == <<text, recSeq, recAsync>>
pipeVars == <<mode, st, pc, trace, calls, errors, outcome>>
asyncVars == <<max_concurrent_tasks, semaphore, positions, scenario, tpc, tst,
               tres, ctl, results>>
rebalVars == <<price_getter, analysis_results, portfolio, rpc, idx, cash,
               rebalancing_suggestions, buy_tickers, lookups, buy_start_cash>>
retryVars == <<max_retries, delay, attempt, retry_pc, retry_events, retry_outcome,
               wrapped, request_log>>
monitorVars == <<counters, monitor_errors, execution_times, clock, last_call,
                 thread_pc, thread_tmp, thread_outcome>>
modelVars == <<in_ticker, in_quantity, built, built_from_dict, in_confidence,
               built_result, in_tickers, built_portfolio>>
truncVars == <<summary_field, stage_text, prompt_summary>>
utilVars == <<retryVars, monitorVars, modelVars, truncVars>>
vars == <<extractVars, pipeVars, asyncVars, rebalVars, utilVars>>
notExtract == <<pipeVars, asyncVars, rebalVars, utilVars>>
notPipe == <<extractVars, asyncVars, rebalVars, utilVars>>
notAsync == <<extractVars, pipeVars, rebalVars, utilVars>>
notRebal == <<extractVars, pipeVars, asyncVars, utilVars>>
analyzerVars == <<extractVars, pipeVars, asyncVars, rebalVars>>
notRetry == <<analyzerVars, monitorVars, modelVars, truncVars>>
notMonitor == <<analyzerVars, retryVars, modelVars, truncVars>>
notModel == <<analyzerVars, retryVars, monitorVars, truncVars>>
notTrunc == <<analyzerVars, retryVars, monitorVars, modelVars>>

(***************************************************************************)
(* Python values                                                           *)
(***************************************************************************)
StrV(p) == [kind |-> "str", pieces |-> p]
NoneV == [kind |-> "none", pieces |-> <<>>]
ListV(items) == [kind |-> "list", pieces |-> items]

\* Python's `needle in hay` for two str: needle occurs as a contiguous part.
Contains(needle, hay) ==
    \E i \in 0..(Len(hay) - Len(needle)) :
        SubSeq(hay, i + 1, i + Len(needle)) = needle

\* The recommendation tokens.
BUY == "KUPIT"          \* "КУПИТЬ"
SELL == "PRODAVAT"      \* "ПРОДАВАТЬ"
HOLD == "DERZHAT"       \* "ДЕРЖАТЬ"

\* The longest final-decision text the model draws, in pieces.
MaxTextLen == 2

\* The pieces a final-decision text is made of: the three tokens, one of them
\* in another case ("Купить", which the case-sensitive test does not match)
\* and filler.
Pieces == {BUY, SELL, HOLD, "Kupit", " "}

RECURSIVE SeqsUpTo(_, _)
SeqsUpTo(S, n) ==
    IF n = 0 THEN {<<>>}
    ELSE LET shorter == SeqsUpTo(S, n - 1)
         IN  shorter \cup {Append(s, x) : s \in shorter, x \in S}

Texts == SeqsUpTo(Pieces, MaxTextLen)

(***************************************************************************)
(* Recommendation extraction                                               *)
(***************************************************************************)
\* analyze_portfolio, on the final_data of the chain's result (a str).
ExtractRecommendationSeq(final_data) ==
    IF Contains(<<BUY>>, final_data.pieces) THEN BUY
    ELSE IF Contains(<<SELL>>, final_data.pieces) THEN SELL
    ELSE HOLD

\* Mutant: the SELL token tested before the BUY token.
ExtractRecommendationSellFirst(final_data) ==
    IF Contains(<<SELL>>, final_data.pieces) THEN SELL
    ELSE IF Contains(<<BUY>>, final_data.pieces) THEN BUY
    ELSE HOLD

\* _analyze_single, on the final_data of the chain's result (a str).
ExtractRecommendationAsync(final_data) ==
    IF Contains(<<BUY>>, final_data.pieces) THEN BUY
    ELSE IF Contains(<<SELL>>, final_data.pieces) THEN SELL
    ELSE HOLD

(***************************************************************************)
(* The placeholder strings of the stages and of the services               *)
(***************************************************************************)
MARKET_NO_NEWS == StrV(<<"Nedostatochno svezhih novostej dlya analiza">>)
                        \* "Недостаточно свежих новостей для анализа"
MARKET_ERROR == StrV(<<"Oshibka pri analize novostej">>)
                        \* "Ошибка при анализе новостей"
GRADE_NO_NEWS == StrV(<<"Net novostej dlya analiza">>)
                        \* "Нет новостей для анализа"
GRADE_ERROR == StrV(<<"Oshibka analiza", " novostej">>)
                        \* "Ошибка анализа новостей"
MOEX_ERROR == StrV(<<"Oshibka polucheniya dannyh", " MOEX">>)
                        \* "Ошибка получения данных MOEX"
TRADE_IMPOSSIBLE == StrV(<<"Nevozmozhno provesti tehnicheskij analiz">>)
                        \* "Невозможно провести технический анализ"
TRADE_ERROR == StrV(<<"Oshibka tehnicheskogo analiza">>)
                        \* "Ошибка технического анализа"
IFRS_ERROR == StrV(<<"Oshibka analiza", " MSFO">>)
                        \* "Ошибка анализа МСФО"
FINAL_ERROR == StrV(<<"Oshibka finalnogo analiza">>)
                        \* "Ошибка финального анализа"
AI_ERROR == StrV(<<"Oshibka analiza">>)
                        \* "Ошибка анализа", what AIService.call_deepseek returns
                        \* when the API call raises
RECENT_ERROR == StrV(<<"Oshibka polucheniya dannyh">>)
                        \* "Ошибка получения данных", MOEXService.get_recent_data
NOT_FOUND_MARK == <<"ne najdena">>
                        \* "не найдена"
IFRS_NOT_FOUND == StrV(<<"Otchetnost MSFO ", "ne najdena">>)
                        \* "Отчетность МСФО не найдена", IFRSService.fetch_ifrs_from_web

\* The fixed strings a stage substitutes for its output when it degrades.
StagePlaceholders ==
    {MARKET_NO_NEWS, MARKET_ERROR, GRADE_NO_NEWS, GRADE_ERROR, MOEX_ERROR,
     TRADE_IMPOSSIBLE, TRADE_ERROR, IFRS_ERROR, FINAL_ERROR}

(***************************************************************************)
(* Collaborator outcomes.  A call either returns a value or raises.        *)
(***************************************************************************)
Returns(v) == [raises |-> FALSE, value |-> v]
Raises == [raises |-> TRUE, value |-> NoneV]

AI_TEXT == StrV(<<"analysis">>)
NEWS_ITEMS == ListV(<<"post">>)
MOEX_TABLE == StrV(<<"TRADEDATE CLOSE VOLUME VALUE">>)
IFRS_REPORT == StrV(<<"report">>)
IFRS_REPORT_MENTIONING == StrV(<<"goodwill ", "ne najdena">>)

\* The chat-completions request: message.content (a str or None), or an
\* exception.
ApiOutcomes == {Returns(AI_TEXT), Returns(NoneV), Raises}

\* AIService.call_deepseek: the content, or the error string when the request
\* raised.
call_deepseek(api) == IF api.raises THEN Returns(AI_ERROR) ELSE Returns(api.value)

\* ai_service.call_deepseek as a stage sees it.  The stages' handlers name
\* APIError, so a stage is also run against an ai_service that raises.
AIOutcomes == {call_deepseek(api) : api \in ApiOutcomes} \cup {Raises}
\* news_service.get_market_news, news_service.get_ticker_news
NewsOutcomes == {Returns(NEWS_ITEMS), Returns(ListV(<<>>)), Raises}
\* moex_service.get_ticker_data (the table, rendered by df.to_string)
MoexOutcomes == {Returns(MOEX_TABLE), Raises}
\* moex_service.get_recent_data
RecentOutcomes == {Returns(MOEX_TABLE), Returns(RECENT_ERROR), Raises}
\* ifrs_service.get_ifrs_data
IfrsOutcomes ==
    {Returns(IFRS_REPORT), Returns(IFRS_NOT_FOUND), Returns(IFRS_REPORT_MENTIONING), Raises}

\* The outcomes of every collaborator call of one pipeline run.
DefaultEnv ==
    [market_fetch |-> Raises, ai_market |-> Raises,
     ticker_fetch |-> Raises, ai_grade |-> Raises,
     moex_fetch |-> Raises, recent_fetch |-> Raises, ai_trade |-> Raises,
     ifrs_fetch |-> Raises, ai_ifrs |-> Raises, ai_final |-> Raises]

(***************************************************************************)
(* The state threaded through the stages, and the seven stages.  A stage   *)
(* yields the field it updates, the value, the collaborator calls it made, *)
(* whether it logged an error (its except branch ran) and whether an       *)
(* exception left it.  Every stage body is one try block whose handler     *)
(* catches Exception, so no stage of the source lets one out.              *)
(***************************************************************************)
\* Python truthiness of a str, a list or None
Truthy(v) == v.kind # "none" /\ Len(v.pieces) > 0

\* initial_state of analyze_portfolio and of _analyze_single
InitialState(ticker, quantity) ==
    [ticker |-> ticker, quantity |-> quantity,
     news |-> StrV(<<>>), semantic |-> StrV(<<>>), moex_data |-> StrV(<<>>),
     moex_data_analysis |-> StrV(<<>>), ifrs_data |-> StrV(<<>>),
     market_news |-> StrV(<<>>), final_data |-> StrV(<<>>)]

Update(field, value, made, logged) ==
    [field |-> field, value |-> value, calls |-> made, error |-> logged,
     raised |-> FALSE]

\* A stage whose handler does not catch what its collaborator raised.
Escapes(field, made) ==
    [field |-> field, value |-> NoneV, calls |-> made, error |-> FALSE,
     raised |-> TRUE]

\* Mutant: the AI is asked whatever the fetch returned.
generate_market_news_always_asking(state, env) ==
    IF env.market_fetch.raises
    THEN Update("market_news", MARKET_ERROR, <<"get_market_news">>, TRUE)
    ELSE IF env.ai_market.raises
    THEN Update("market_news", MARKET_ERROR,
                <<"get_market_news", "call_deepseek">>, TRUE)
    ELSE Update("market_news", env.ai_market.value,
                <<"get_market_news", "call_deepseek">>, FALSE)

generate_market_news(state, env) ==
    IF env.market_fetch.raises
    THEN Update("market_news", MARKET_ERROR, <<"get_market_news">>, TRUE)
    ELSE IF Truthy(env.market_fetch.value)
    THEN IF env.ai_market.raises
         THEN Update("market_news", MARKET_ERROR,
                     <<"get_market_news", "call_deepseek">>, TRUE)
         ELSE Update("market_news", env.ai_market.value,
                     <<"get_market_news", "call_deepseek">>, FALSE)
    ELSE Update("market_news", MARKET_NO_NEWS, <<"get_market_news">>, FALSE)

generate_news(state, env) ==
    IF env.ticker_fetch.raises
    THEN Update("news", ListV(<<>>), <<"get_ticker_news">>, TRUE)
    ELSE Update("news", env.ticker_fetch.value, <<"get_ticker_news">>, FALSE)

\* Mutant: the AI is asked whatever the news list holds.
grade_news_always_asking(state, env) ==
    IF env.ai_grade.raises
    THEN Update("semantic", GRADE_ERROR, <<"call_deepseek">>, TRUE)
    ELSE Update("semantic", env.ai_grade.value, <<"call_deepseek">>, FALSE)

grade_news(state, env) ==
    IF ~Truthy(state.news)
    THEN Update("semantic", GRADE_NO_NEWS, <<>>, FALSE)
    ELSE IF env.ai_grade.raises
    THEN Update("semantic", GRADE_ERROR, <<"call_deepseek">>, TRUE)
    ELSE Update("semantic", env.ai_grade.value, <<"call_deepseek">>, FALSE)

\* Mutant: a handler that does not catch what get_ticker_data raises.
moex_news_unguarded(state, env) ==
    IF env.moex_fetch.raises
    THEN Escapes("moex_data", <<"get_ticker_data">>)
    ELSE Update("moex_data", env.moex_fetch.value, <<"get_ticker_data">>, FALSE)

moex_news(state, env) ==
    IF env.moex_fetch.raises
    THEN Update("moex_data", MOEX_ERROR, <<"get_ticker_data">>, TRUE)
    ELSE Update("moex_data", env.moex_fetch.value, <<"get_ticker_data">>, FALSE)

\* Mutant: the recent data are fetched before the sentinel is looked at.
make_trade_analysis_fetching_first(state, env) ==
    IF env.recent_fetch.raises
    THEN Update("moex_data_analysis", TRADE_ERROR, <<"get_recent_data">>, TRUE)
    ELSE IF state.moex_data = MOEX_ERROR
    THEN Update("moex_data_analysis", TRADE_IMPOSSIBLE, <<"get_recent_data">>, FALSE)
    ELSE IF env.ai_trade.raises
    THEN Update("moex_data_analysis", TRADE_ERROR,
                <<"get_recent_data", "call_deepseek">>, TRUE)
    ELSE Update("moex_data_analysis", env.ai_trade.value,
                <<"get_recent_data", "call_deepseek">>, FALSE)

make_trade_analysis(state, env) ==
    IF state.moex_data = MOEX_ERROR
    THEN Update("moex_data_analysis", TRADE_IMPOSSIBLE, <<>>, FALSE)
    ELSE IF env.recent_fetch.raises
    THEN Update("moex_data_analysis", TRADE_ERROR, <<"get_recent_data">>, TRUE)
    ELSE IF env.ai_trade.raises
    THEN Update("moex_data_analysis", TRADE_ERROR,
                <<"get_recent_data", "call_deepseek">>, TRUE)
    ELSE Update("moex_data_analysis", env.ai_trade.value,
                <<"get_recent_data", "call_deepseek">>, FALSE)

ifrs_analysis(state, env) ==
    IF env.ifrs_fetch.raises
    THEN Update("ifrs_data", IFRS_ERROR, <<"get_ifrs_data">>, TRUE)
    ELSE IF Contains(NOT_FOUND_MARK, env.ifrs_fetch.value.pieces)
    THEN Update("ifrs_data", env.ifrs_fetch.value, <<"get_ifrs_data">>, FALSE)
    ELSE IF env.ai_ifrs.raises
    THEN Update("ifrs_data", IFRS_ERROR, <<"get_ifrs_data", "call_deepseek">>, TRUE)
    ELSE Update("ifrs_data", env.ai_ifrs.value,
                <<"get_ifrs_data", "call_deepseek">>, FALSE)

\* truncate_text takes len(text): a TypeError when text is None
TruncateRaises(v) == v.kind = "none"

final_analysis(state, env) ==
    IF \/ TruncateRaises(state.market_news)
       \/ TruncateRaises(state.semantic)
       \/ TruncateRaises(state.moex_data_analysis)
       \/ TruncateRaises(state.ifrs_data)
    THEN Update("final_data", FINAL_ERROR, <<>>, TRUE)
    ELSE IF env.ai_final.raises
    THEN Update("final_data", FINAL_ERROR, <<"call_deepseek">>, TRUE)
    ELSE Update("final_data", env.ai_final.value, <<"call_deepseek">>, FALSE)

\* The chain merges a stage's partial update into the state.
Merge(state, upd) == [state EXCEPT ![upd.field] = upd.value]

(***************************************************************************)
(* The workflow graph: the edges added with add_edge, in both controllers. *)
(***************************************************************************)
\* analyze_portfolio
SeqEdges ==
    {<<"START", "generate_market_news">>,
     <<"generate_market_news", "generate_news">>,
     <<"generate_news", "grade_news">>,
     <<"grade_news", "moex_news">>,
     <<"moex_news", "make_trade_analysis">>,
     <<"make_trade_analysis", "ifrs_analysis">>,
     <<"ifrs_analysis", "final_analysis">>,
     <<"final_analysis", "END">>}

\* Mutant: the edge out of grade_news skips the market-data fetch.
AsyncEdgesSkippingMoex ==
    {<<"START", "generate_market_news">>,
     <<"generate_market_news", "generate_news">>,
     <<"generate_news", "grade_news">>,
     <<"grade_news", "make_trade_analysis">>,
     <<"moex_news", "make_trade_analysis">>,
     <<"make_trade_analysis", "ifrs_analysis">>,
     <<"ifrs_analysis", "final_analysis">>,
     <<"final_analysis", "END">>}

\* analyze_portfolio_async
AsyncEdges ==
    {<<"START", "generate_market_news">>,
     <<"generate_market_news", "generate_news">>,
     <<"generate_news", "grade_news">>,
     <<"grade_news", "moex_news">>,
     <<"moex_news", "make_trade_analysis">>,
     <<"make_trade_analysis", "ifrs_analysis">>,
     <<"ifrs_analysis", "final_analysis">>,
     <<"final_analysis", "END">>}

Edges(m) == IF m = "seq" THEN SeqEdges ELSE AsyncEdges

\* The node the compiled chain runs after `node`.
Successor(edges, node) == CHOOSE n \in {e[2] : e \in {d \in edges : d[1] = node}} : TRUE

(***************************************************************************)
(* AnalysisResult and the per-position tail of the two controllers         *)
(***************************************************************************)
\* Confidence is kept in tenths: 0.8 is 8, 0.0 is 0, 1.0 is 10.
BASE_CONFIDENCE == 8
ERROR_CONFIDENCE == 0
CONFIDENCE_ONE == 10

\* Mutant: the upper bound itself is rejected.
AnalysisResultValidBelowOne(confidence, analysis_data) ==
    /\ 0 <= confidence /\ confidence < CONFIDENCE_ONE
    /\ \A k \in DOMAIN analysis_data : analysis_data[k].kind = "str"

\* AnalysisResult(...): pydantic rejects a confidence outside [0, 1] and an
\* analysis_data value that is not a str.
AnalysisResultValid(confidence, analysis_data) ==
    /\ 0 <= confidence /\ confidence <= CONFIDENCE_ONE
    /\ \A k \in DOMAIN analysis_data : analysis_data[k].kind = "str"

AnalysisResult(ticker, recommendation, confidence, analysis_data) ==
    [ticker |-> ticker, recommendation |-> recommendation,
     confidence |-> confidence, analysis_data |-> analysis_data]

AnalysisData(result) ==
    [market_news |-> result.market_news,
     semantic |-> result.semantic,
     moex_analysis |-> result.moex_data_analysis,
     ifrs_data |-> result.ifrs_data,
     final_decision |-> result.final_data]

\* `"КУПИТЬ" in result["final_data"]` is a TypeError when final_data is None.
ExtractionRaises(result) == result.final_data.kind = "none"

\* What follows chain.invoke in _analyze_single: a result, or the exception
\* (of chain.invoke, of the extraction or of AnalysisResult) leaves the
\* coroutine: there is no handler.
AnalyzeSingleTail(position_ticker, result, invoke_raised) ==
    IF invoke_raised THEN Raises
    ELSE IF ExtractionRaises(result) THEN Raises
    ELSE IF ~AnalysisResultValid(BASE_CONFIDENCE, AnalysisData(result)) THEN Raises
    ELSE Returns(AnalysisResult(position_ticker, ExtractRecommendationAsync(result.final_data),
                                BASE_CONFIDENCE, AnalysisData(result)))

ErrorData == [error |-> StrV(<<"str(e)">>)]

\* Mutant: the except branch keeps the base confidence.
AnalyzePortfolioTailKeepingConfidence(position_ticker, result, invoke_raised) ==
    IF \/ invoke_raised
       \/ ExtractionRaises(result)
       \/ ~AnalysisResultValid(BASE_CONFIDENCE, AnalysisData(result))
    THEN Returns(AnalysisResult(position_ticker, HOLD, BASE_CONFIDENCE, ErrorData))
    ELSE Returns(AnalysisResult(position_ticker, ExtractRecommendationSeq(result.final_data),
                                BASE_CONFIDENCE, AnalysisData(result)))

\* What follows chain.invoke in the loop body of analyze_portfolio: the
\* except branch stores a HOLD result with confidence 0.0.
AnalyzePortfolioTail(position_ticker, result, invoke_raised) ==
    IF \/ invoke_raised
       \/ ExtractionRaises(result)
       \/ ~AnalysisResultValid(BASE_CONFIDENCE, AnalysisData(result))
    THEN Returns(AnalysisResult(position_ticker, HOLD, ERROR_CONFIDENCE, ErrorData))
    ELSE Returns(AnalysisResult(position_ticker, ExtractRecommendationSeq(result.final_data),
                                BASE_CONFIDENCE, AnalysisData(result)))

(***************************************************************************)
(* One pipeline run (SpecPipeline): the chain invoked on one position by   *)
(* analyze_portfolio (mode "seq") or by _analyze_single (mode "async"),    *)
(* every collaborator outcome drawn when the call is made.                 *)
(***************************************************************************)
FinalTexts == SeqsUpTo({BUY, SELL, " "}, MaxTextLen)
AIFinalOutcomes ==
    {call_deepseek(api) : api \in {Returns(StrV(p)) : p \in FinalTexts} \cup {Returns(NoneV), Raises}}
        \cup {Raises}

Pending == [raises |-> FALSE, value |-> [pending |-> TRUE]]

(***************************************************************************)
(* The rebalancing allocator (SpecRebalance): suggest_rebalancing, one     *)
(* loop iteration per step.  Money is kept exactly, in millionths of a     *)
(* rouble; prices and the starting cash are whole roubles.  The fee of     *)
(* 0.0006 is 6 per 10000 and the tax of 0.15 is 15 per 100, so that        *)
(* price*qty*(1-fee)*(1-tax) is price*qty*9994*85 millionths.              *)
(***************************************************************************)
BROKER_FEE == 6
FEE_SCALE == 10000
TAX_RATE == 15
TAX_SCALE == 100
\* millionths in a rouble
MICRO == 1000000

\* The largest quantity held, price returned and starting cash (in roubles)
\* the model draws.
MaxQty == 2
MaxPrice == 2
MaxCash == 2

\* test_suggest_rebalancing_with_cash: the holdings, the cash and the prices
SCENARIO_AAA_QUANTITY == 10
SCENARIO_BBB_QUANTITY == 5
SCENARIO_CASH == 1000
SCENARIO_AAA_PRICE == 100
SCENARIO_BBB_PRICE == 10

\* The tickers of the recommendation mapping, in its iteration order; tickers
\* are only compared for equality, so the mapping's keys are the first n of
\* these.
RebalTickers == <<"AAA", "BBB", "CCC">>

Recommendations == {BUY, SELL, HOLD}

\* analysis_results: the (ticker, recommendation) items in iteration order
AnalysisResultsInputs ==
    UNION {{[i \in 1..n |-> [ticker |-> RebalTickers[i], recommendation |-> r[i]]] :
               r \in [1..n -> Recommendations]} : n \in 0..Len(RebalTickers)}

\* portfolio.positions: each ticker absent or held with a quantity >= 0
RECURSIVE PositionLists(_)
PositionLists(k) ==
    IF k = 0 THEN {<<>>}
    ELSE LET rest == PositionLists(k - 1)
         IN  rest \cup {Append(ps, [ticker |-> RebalTickers[k], quantity |-> q]) :
                           ps \in rest, q \in 0..MaxQty}

\* price_getter(ticker): a price, or an exception
PriceOutcomes == {[raises |-> FALSE, price |-> p] : p \in 0..MaxPrice}
                     \cup {[raises |-> TRUE, price |-> 0]}

\* The price_getter given to RebalancingAnalyzer: any callable (each call
\* returns some price or throws), or a lookup in a table of prices as in
\* `lambda t: price_data[t]`, which throws KeyError for a ticker it lacks.
AnyGetter == [any |-> TRUE, price_data |-> <<>>]
TableGetter(price_data) == [any |-> FALSE, price_data |-> price_data]

\* self.price_getter(ticker): the outcomes the call can have
GetPrice(getter, ticker) ==
    IF getter.any THEN PriceOutcomes
    ELSE IF ticker \in DOMAIN getter.price_data
    THEN {[raises |-> FALSE, price |-> getter.price_data[ticker]]}
    ELSE {[raises |-> TRUE, price |-> 0]}

\* Portfolio.get_position: the first position of that ticker, or None
HasPosition(pf, ticker) == \E k \in 1..Len(pf.positions) : pf.positions[k].ticker = ticker

get_position(pf, ticker) ==
    pf.positions[CHOOSE k \in 1..Len(pf.positions) :
                     /\ pf.positions[k].ticker = ticker
                     /\ \A j \in 1..(k - 1) : pf.positions[j].ticker # ticker]

\* `not position or position.quantity <= 0`
\* Mutant: only a negative quantity counts as no position.
PositionMissingIfNegative(pf, ticker) ==
    \/ ~HasPosition(pf, ticker)
    \/ get_position(pf, ticker).quantity < 0

PositionMissing(pf, ticker) ==
    \/ ~HasPosition(pf, ticker)
    \/ get_position(pf, ticker).quantity <= 0

\* The action texts, as the fixed text and the number formatted into it.
Action(verb, number) == [verb |-> verb, number |-> number]
POSITION_ABSENT == Action("Poziciya otsutstvuet", 0)   \* "Позиция отсутствует"
PRICE_UNAVAILABLE == Action("Cena nedostupna", 0)      \* "Цена недоступна"
NO_FUNDS == Action("Nedostatochno sredstv", 0)         \* "Недостаточно средств"
HOLD_ACTION == Action("Derzhat", 0)                    \* "Держать"
SellAction(qty) == Action("Prodat", qty)               \* f"Продать {qty}"
BuyAction(qty) == Action("Kupit", qty)                 \* f"Купить {qty}"
RemainderAction(r) == Action("Ostatok", r)             \* f"Остаток {r}"

\* Mutant: the tax is not taken off the proceeds.
ProceedsBeforeTax(price, qty) ==
    price * qty * (FEE_SCALE - BROKER_FEE) * TAX_SCALE

\* price * qty * (1 - BROKER_FEE) * (1 - TAX_RATE), in millionths
ProceedsAfterTax(price, qty) ==
    price * qty * (FEE_SCALE - BROKER_FEE) * (TAX_SCALE - TAX_RATE)

\* price * (1 + BROKER_FEE), in millionths
PriceWithFee(price) == price * (FEE_SCALE + BROKER_FEE) * TAX_SCALE

\* Mutant: the quotient rounded up.
CeilingDiv(x, y) == IF x % y = 0 THEN x \div y ELSE (x \div y) + 1

\* int(x / y): the quotient truncated toward zero (y > 0)
TruncDiv(x, y) == IF x >= 0 THEN x \div y ELSE -((-x) \div y)

\* Mutant: a buy is sized against the whole pool.
BuyQuantityFromWholePool(pool, buy_count, price) ==
    TruncDiv(pool, PriceWithFee(price))

\* int(cash_per_ticker / (price * (1 + BROKER_FEE))) with
\* cash_per_ticker = pool / buy_count
BuyQuantity(pool, buy_count, price) ==
    TruncDiv(pool, buy_count * PriceWithFee(price))

\* Mutant: the fee is not charged on a buy.
BuyCostWithoutFee(qty, price) == qty * price * MICRO

\* qty * price * (1 + BROKER_FEE), in millionths
BuyCost(qty, price) == qty * PriceWithFee(price)

\* Mutant: int(cash), the fraction cut off.
RoundDown(micro) == micro \div MICRO

\* int(round(cash)): to the nearest rouble, a tie to the even one
RoundHalfEven(micro) ==
    LET whole == micro \div MICRO
        part == micro % MICRO
    IN  IF 2 * part < MICRO THEN whole
        ELSE IF 2 * part > MICRO THEN whole + 1
        ELSE IF whole % 2 = 0 THEN whole ELSE whole + 1

\* [t for t, r in analysis_results.items() if r.recommendation == "КУПИТЬ"]
BuyTickersOf(items) ==
    LET keep(r) == r.recommendation = BUY
    IN  [k \in 1..Len(SelectSeq(items, keep)) |-> SelectSeq(items, keep)[k].ticker]

NoSuggestions == [t \in {} |-> HOLD_ACTION]

Suggest(suggestions, key, action) ==
    [t \in DOMAIN suggestions \cup {key} |->
        IF t = key THEN action ELSE suggestions[t]]

NoLookups == [t \in {} |-> [raises |-> FALSE, price |-> 0]]

\* `cash = portfolio.cash_rub` binds a local; `cash += proceeds_after_tax`
\* and `cash -= cost` rebind it, and the portfolio is only read.
\* Mutant: the new balance is stored in the portfolio.
PortfolioWithBalance(pf, balance) == [pf EXCEPT !.cash_rub = balance \div MICRO]

PortfolioAfter(pf, balance) == pf

\* lines 93-95: every ticker of the mapping without an action holds
\* Mutant: every ticker of the mapping holds.
HoldPhaseOverwriting(suggestions, keys) == [t \in keys |-> HOLD_ACTION]

HoldPhase(suggestions, keys) ==
    [t \in keys \cup DOMAIN suggestions |->
        IF t \in DOMAIN suggestions THEN suggestions[t] ELSE HOLD_ACTION]

\* lines 34-49: the locals, the early return on an empty mapping, the count
\* of the recommendations
Enter ==
    /\ rpc = "called"
    /\ cash' = portfolio.cash_rub * MICRO
    /\ rebalancing_suggestions' = NoSuggestions
    /\ rpc' = IF Len(analysis_results) = 0 THEN "returned" ELSE "sell"
    /\ idx' = 1
    /\ UNCHANGED <<price_getter, analysis_results, portfolio, buy_tickers, lookups, buy_start_cash>>
    /\ UNCHANGED notRebal

\* `except Exception: ... continue`: after a failed price lookup the loop of
\* the phase goes on with its next ticker.
\* Mutant: the exception leaves suggest_rebalancing.
OnPriceErrorAbort(phase) == "raised"

OnPriceError(phase) == phase

\* The sell loop has gone through every item of analysis_results.
\* Mutant: the loop stops one item early.
SellLoopOverEarly(i, items) == i > Len(items) - 1

SellLoopOver(i, items) == i > Len(items)

\* lines 53-71: one iteration of the sell loop
SellIteration ==
    /\ rpc = "sell"
    /\ ~SellLoopOver(idx, analysis_results)
    /\ LET ticker == analysis_results[idx].ticker
           held == IF HasPosition(portfolio, ticker)
                   THEN get_position(portfolio, ticker).quantity ELSE 0
       IN  IF analysis_results[idx].recommendation # SELL
           THEN UNCHANGED <<cash, rebalancing_suggestions, lookups>>
           ELSE IF PositionMissing(portfolio, ticker)
           THEN /\ rebalancing_suggestions' =
                       Suggest(rebalancing_suggestions, ticker, POSITION_ABSENT)
                /\ UNCHANGED <<cash, lookups>>
           ELSE \E got \in GetPrice(price_getter, ticker) :
                /\ lookups' = Suggest(lookups, ticker, got)
                /\ IF got.raises
                   THEN /\ rebalancing_suggestions' =
                               Suggest(rebalancing_suggestions, ticker, PRICE_UNAVAILABLE)
                        /\ UNCHANGED cash
                   ELSE /\ cash' = cash + ProceedsAfterTax(got.price, held)
                        /\ rebalancing_suggestions' =
                               Suggest(rebalancing_suggestions, ticker, SellAction(held))
    /\ rpc' = IF lookups' # lookups
                   /\ lookups'[analysis_results[idx].ticker].raises
              THEN OnPriceError(rpc) ELSE rpc
    /\ idx' = idx + 1
    /\ portfolio' = PortfolioAfter(portfolio, cash')
    /\ UNCHANGED <<price_getter, analysis_results, buy_tickers, buy_start_cash>>
    /\ UNCHANGED notRebal

\* lines 74-75: the sell loop is over; the buy candidates and their number
StartBuying ==
    /\ rpc = "sell"
    /\ SellLoopOver(idx, analysis_results)
    /\ buy_tickers' = BuyTickersOf(analysis_results)
    /\ buy_start_cash' = cash
    /\ rpc' = "buy"
    /\ idx' = 1
    /\ UNCHANGED <<price_getter, analysis_results, portfolio, cash, rebalancing_suggestions, lookups>>
    /\ UNCHANGED notRebal

\* The pool a buy candidate's share is cut from: the cash left when its turn
\* comes (line 84 is inside the loop).
SharePool(current_cash, cash_at_buy_start) == current_cash

\* lines 76-91: one iteration of the buy loop; a price of 0 makes line 85
\* divide by zero, and the exception leaves suggest_rebalancing
BuyIteration ==
    /\ rpc = "buy"
    /\ idx <= Len(buy_tickers)
    /\ LET ticker == buy_tickers[idx]
           buy_count == Len(buy_tickers)
       IN  \E got \in GetPrice(price_getter, ticker) :
           /\ lookups' = Suggest(lookups, ticker, got)
           /\ IF got.raises
              THEN /\ rebalancing_suggestions' =
                          Suggest(rebalancing_suggestions, ticker, PRICE_UNAVAILABLE)
                   /\ UNCHANGED cash
                   /\ rpc' = OnPriceError(rpc)
              ELSE IF got.price = 0
              THEN /\ UNCHANGED <<cash, rebalancing_suggestions>>
                   /\ rpc' = "raised"
              ELSE LET qty == BuyQuantity(SharePool(cash, buy_start_cash),
                                          buy_count, got.price)
                   IN  /\ rpc' = rpc
                       /\ IF qty > 0
                          THEN /\ cash' = cash - BuyCost(qty, got.price)
                               /\ rebalancing_suggestions' =
                                      Suggest(rebalancing_suggestions, ticker, BuyAction(qty))
                          ELSE /\ UNCHANGED cash
                               /\ rebalancing_suggestions' =
                                      Suggest(rebalancing_suggestions, ticker, NO_FUNDS)
    /\ idx' = idx + 1
    /\ portfolio' = PortfolioAfter(portfolio, cash')
    /\ UNCHANGED <<price_getter, analysis_results, buy_tickers, buy_start_cash>>
    /\ UNCHANGED notRebal

\* lines 94-100: the tickers without an action hold, the remainder is entered
\* under "RUB", the plan is returned
Finish ==
    /\ rpc = "buy"
    /\ idx > Len(buy_tickers)
    /\ LET keys == {analysis_results[k].ticker : k \in 1..Len(analysis_results)}
           held == HoldPhase(rebalancing_suggestions, keys)
       IN  rebalancing_suggestions' =
               Suggest(held, "RUB", RemainderAction(RoundHalfEven(cash)))
    /\ rpc' = "returned"
    /\ UNCHANGED <<price_getter, analysis_results, portfolio, idx, cash, buy_tickers, lookups,
                   buy_start_cash>>
    /\ UNCHANGED notRebal

(***************************************************************************)
(* suggest_rebalancing as one function of its arguments, for a price_getter *)
(* that looks prices up in a table: the two loops as folds over the items  *)
(* of the mapping in their order.  A run holds the cash pool, the plan so  *)
(* far and whether an exception has left the call.                         *)
(***************************************************************************)
PriceOf(getter, ticker) == CHOOSE got \in GetPrice(getter, ticker) : TRUE

\* lines 53-71, from item k on
RECURSIVE SellPhase(_, _, _, _, _)
SellPhase(items, pf, getter, k, run) ==
    IF k > Len(items) THEN run
    ELSE LET ticker == items[k].ticker
             got == PriceOf(getter, ticker)
             next ==
                 IF items[k].recommendation # SELL THEN run
                 ELSE IF PositionMissing(pf, ticker)
                 THEN [run EXCEPT !.plan = Suggest(@, ticker, POSITION_ABSENT)]
                 ELSE IF got.raises
                 THEN [run EXCEPT !.plan = Suggest(@, ticker, PRICE_UNAVAILABLE)]
                 ELSE [run EXCEPT
                          !.cash = @ + ProceedsAfterTax(got.price,
                                                        get_position(pf, ticker).quantity),
                          !.plan = Suggest(@, ticker,
                                           SellAction(get_position(pf, ticker).quantity))]
         IN  SellPhase(items, pf, getter, k + 1, next)

\* lines 76-91, from buy candidate k on
RECURSIVE BuyPhase(_, _, _, _)
BuyPhase(candidates, getter, k, run) ==
    IF k > Len(candidates) \/ run.raised THEN run
    ELSE LET ticker == candidates[k]
             got == PriceOf(getter, ticker)
             qty == BuyQuantity(SharePool(run.cash, run.cash), Len(candidates), got.price)
             next ==
                 IF got.raises
                 THEN [run EXCEPT !.plan = Suggest(@, ticker, PRICE_UNAVAILABLE)]
                 ELSE IF got.price = 0 THEN [run EXCEPT !.raised = TRUE]
                 ELSE IF qty > 0
                 THEN [run EXCEPT !.cash = @ - BuyCost(qty, got.price),
                                  !.plan = Suggest(@, ticker, BuyAction(qty))]
                 ELSE [run EXCEPT !.plan = Suggest(@, ticker, NO_FUNDS)]
         IN  BuyPhase(candidates, getter, k + 1, next)

\* lines 34-100: the plan returned for the items in the order given
suggest_rebalancing(items, pf, getter) ==
    LET start == [cash |-> pf.cash_rub * MICRO, plan |-> NoSuggestions, raised |-> FALSE]
        sold == SellPhase(items, pf, getter, 1, start)
        bought == BuyPhase(BuyTickersOf(items), getter, 1, sold)
        keys == {items[k].ticker : k \in 1..Len(items)}
    IN  IF Len(items) = 0 THEN start
        ELSE IF bought.raised THEN bought
        ELSE [bought EXCEPT !.plan = Suggest(HoldPhase(@, keys), "RUB",
                                             RemainderAction(RoundHalfEven(bought.cash)))]

RunStage(node, upd) ==
    /\ pc = node
    /\ st' = IF upd.raised THEN st ELSE Merge(st, upd)
    /\ trace' = Append(trace, node)
    /\ calls' = calls \o upd.calls
    /\ errors' = IF upd.error
                 THEN Append(errors, [node |-> node, field |-> upd.field])
                 ELSE errors
    /\ pc' = IF upd.raised THEN "RAISED" ELSE Successor(Edges(mode), node)
    /\ UNCHANGED <<mode, outcome>>
    /\ UNCHANGED notPipe

\* chain.invoke(initial_state): the chain starts at the node after START
Invoke ==
    /\ pc = "START"
    /\ pc' = Successor(Edges(mode), "START")
    /\ UNCHANGED <<mode, st, trace, calls, errors, outcome>>
    /\ UNCHANGED notPipe

StageMarketNews ==
    \E f \in NewsOutcomes, a \in AIOutcomes :
        RunStage("generate_market_news",
                 generate_market_news(st, [DefaultEnv EXCEPT !.market_fetch = f, !.ai_market = a]))

StageNews ==
    \E f \in NewsOutcomes :
        RunStage("generate_news", generate_news(st, [DefaultEnv EXCEPT !.ticker_fetch = f]))

StageGrade ==
    \E a \in AIOutcomes :
        RunStage("grade_news", grade_news(st, [DefaultEnv EXCEPT !.ai_grade = a]))

StageMoex ==
    \E f \in MoexOutcomes :
        RunStage("moex_news", moex_news(st, [DefaultEnv EXCEPT !.moex_fetch = f]))

StageTrade ==
    \E f \in RecentOutcomes, a \in AIOutcomes :
        RunStage("make_trade_analysis",
                 make_trade_analysis(st, [DefaultEnv EXCEPT !.recent_fetch = f, !.ai_trade = a]))

StageIfrs ==
    \E f \in IfrsOutcomes, a \in AIOutcomes :
        RunStage("ifrs_analysis",
                 ifrs_analysis(st, [DefaultEnv EXCEPT !.ifrs_fetch = f, !.ai_ifrs = a]))

StageFinal ==
    \E a \in AIFinalOutcomes :
        RunStage("final_analysis", final_analysis(st, [DefaultEnv EXCEPT !.ai_final = a]))

\* analyze_portfolio: the rest of the loop body, after chain.invoke returned
FinishSeq ==
    /\ pc \in {"END", "RAISED"}
    /\ mode = "seq"
    /\ outcome' = AnalyzePortfolioTail(st.ticker, st, pc = "RAISED")
    /\ pc' = "done"
    /\ UNCHANGED <<mode, st, trace, calls, errors>>
    /\ UNCHANGED notPipe

\* _analyze_single: the rest of the coroutine, after chain.invoke returned
FinishAsync ==
    /\ pc \in {"END", "RAISED"}
    /\ mode = "async"
    /\ outcome' = AnalyzeSingleTail(st.ticker, st, pc = "RAISED")
    /\ pc' = "done"
    /\ UNCHANGED <<mode, st, trace, calls, errors>>
    /\ UNCHANGED notPipe

(***************************************************************************)
(* The concurrent controller (SpecAsync): analyze_portfolio_async gathers  *)
(* one _analyze_single task per position; a task takes a permit of the     *)
(* semaphore, runs the chain in a worker thread stage by stage, builds its *)
(* result and gives the permit back.                                       *)
(***************************************************************************)
\* The largest max_concurrent_tasks the model draws.
MaxConcurrent == 2

Tickers == {"AAA", "BBB", "CCC"}

\* The portfolios the model draws: up to three positions, tickers named in
\* the order of their first occurrence, repeated tickers included (Portfolio
\* does not reject them).
Portfolios ==
    {<<>>, <<"AAA">>, <<"AAA", "AAA">>, <<"AAA", "BBB">>,
     <<"AAA", "AAA", "BBB">>, <<"AAA", "BBB", "AAA">>, <<"AAA", "BBB", "BBB">>,
     <<"AAA", "BBB", "CCC">>}

PositionsOf(tickers) ==
    [i \in 1..Len(tickers) |-> [ticker |-> tickers[i], quantity |-> i]]

\* The collaborator outcomes of one run: everything succeeds and the verdict
\* is BUY; every fetch fails and the verdict is SELL; everything succeeds but
\* the final completion has no content.
EnvAllGood ==
    [market_fetch |-> Returns(NEWS_ITEMS), ai_market |-> Returns(AI_TEXT),
     ticker_fetch |-> Returns(NEWS_ITEMS), ai_grade |-> Returns(AI_TEXT),
     moex_fetch |-> Returns(MOEX_TABLE), recent_fetch |-> Returns(MOEX_TABLE),
     ai_trade |-> Returns(AI_TEXT),
     ifrs_fetch |-> Returns(IFRS_REPORT), ai_ifrs |-> Returns(AI_TEXT),
     ai_final |-> Returns(StrV(<<BUY>>))]
EnvFetchesFail ==
    [DefaultEnv EXCEPT !.ai_final = Returns(StrV(<<SELL>>))]
EnvNoContent ==
    [EnvAllGood EXCEPT !.ai_final = call_deepseek(Returns(NoneV))]
Scenarios == {EnvAllGood, EnvFetchesFail, EnvNoContent}

\* The stage function add_node registered under `node`.
StageResult(node, state, env) ==
    CASE node = "generate_market_news" -> generate_market_news(state, env)
      [] node = "generate_news" -> generate_news(state, env)
      [] node = "grade_news" -> grade_news(state, env)
      [] node = "moex_news" -> moex_news(state, env)
      [] node = "make_trade_analysis" -> make_trade_analysis(state, env)
      [] node = "ifrs_analysis" -> ifrs_analysis(state, env)
      [] node = "final_analysis" -> final_analysis(state, env)

StageNodes ==
    {"generate_market_news", "generate_news", "grade_news", "moex_news",
     "make_trade_analysis", "ifrs_analysis", "final_analysis"}

\* asyncio.Semaphore: acquire goes through only while a permit is left
\* Mutant: the gate admits whatever the number of permits left.
SemaphoreAlwaysFree(permits) == TRUE

SemaphoreFree(permits) == permits > 0

\* {ticker: res for ticker, res in results}: a later pair replaces an earlier
\* one of the same ticker.
LastIndexOf(ps, t) ==
    CHOOSE i \in 1..Len(ps) :
        /\ ps[i].ticker = t
        /\ \A j \in (i + 1)..Len(ps) : ps[j].ticker # t

ResultMappingFirstWins(ps, outcomes) ==
    [t \in {ps[i].ticker : i \in 1..Len(ps)} |->
        outcomes[CHOOSE i \in 1..Len(ps) :
                     /\ ps[i].ticker = t
                     /\ \A j \in 1..(i - 1) : ps[j].ticker # t].value]

ResultMapping(ps, outcomes) ==
    [t \in {ps[i].ticker : i \in 1..Len(ps)} |-> outcomes[LastIndexOf(ps, t)].value]

Inside(i) == tpc[i] \notin {"pending", "done", "failed"}

\* The exit of `async with self.semaphore`: __aexit__ releases the permit
\* whether the body returned or raised.
\* Mutant: the permit is given back only by a body that returned.
PermitsAfterExitOnSuccess(permits, failed) ==
    IF failed THEN permits ELSE permits + 1

PermitsAfterExit(permits, failed) == permits + 1

\* asyncio.gather without return_exceptions: the tasks that have not finished
\* when the first exception is raised are left as they are.
\* Mutant: they are cancelled.
TasksAfterFailureCancelled(pcs) ==
    [i \in DOMAIN pcs |-> IF pcs[i] \in {"done", "failed"} THEN pcs[i] ELSE "cancelled"]

TasksAfterFailure(pcs) == pcs

\* `async with self.semaphore`, initial_state, and chain.invoke handed to a
\* worker thread, which starts at the node after START
Acquire(i) ==
    /\ tpc[i] = "pending"
    /\ SemaphoreFree(semaphore)
    /\ semaphore' = semaphore - 1
    /\ tst' = [tst EXCEPT ![i] = InitialState(positions[i].ticker, positions[i].quantity)]
    /\ tpc' = [tpc EXCEPT ![i] = Successor(AsyncEdges, "START")]
    /\ UNCHANGED <<max_concurrent_tasks, positions, scenario, tres, ctl, results>>
    /\ UNCHANGED notAsync

\* the worker thread runs the chain's next stage
TaskStage(i) ==
    /\ tpc[i] \in StageNodes
    /\ LET upd == StageResult(tpc[i], tst[i], scenario[i])
       IN  /\ tst' = [tst EXCEPT ![i] = IF upd.raised THEN @ ELSE Merge(@, upd)]
           /\ tpc' = [tpc EXCEPT ![i] = IF upd.raised THEN "RAISED"
                                        ELSE Successor(AsyncEdges, @)]
    /\ UNCHANGED <<max_concurrent_tasks, semaphore, positions, scenario, tres,
                   ctl, results>>
    /\ UNCHANGED notAsync

\* chain.invoke is back: the recommendation, the AnalysisResult, and the exit
\* of `async with`, which releases the permit on return and on exception alike
TaskFinish(i) ==
    /\ tpc[i] \in {"END", "RAISED"}
    /\ LET out == AnalyzeSingleTail(positions[i].ticker, tst[i], tpc[i] = "RAISED")
       IN  /\ tres' = [tres EXCEPT ![i] = out]
           /\ tpc' = [tpc EXCEPT ![i] = IF out.raises THEN "failed" ELSE "done"]
           /\ semaphore' = PermitsAfterExit(semaphore, out.raises)
    /\ UNCHANGED <<max_concurrent_tasks, positions, scenario, tst, ctl, results>>
    /\ UNCHANGED notAsync

\* asyncio.gather: every task returned, the mapping is built and returned
GatherReturn ==
    /\ ctl = "gathering"
    /\ \A i \in 1..Len(positions) : tpc[i] = "done"
    /\ results' = ResultMapping(positions, tres)
    /\ ctl' = "returned"
    /\ UNCHANGED <<max_concurrent_tasks, semaphore, positions, scenario, tpc,
                   tst, tres>>
    /\ UNCHANGED notAsync

\* asyncio.gather (return_exceptions is not set): the first exception of a
\* task is raised in analyze_portfolio_async, which has no handler; the other
\* tasks are not cancelled
GatherRaise ==
    /\ ctl = "gathering"
    /\ \E i \in 1..Len(positions) : tpc[i] = "failed"
    /\ ctl' = "raised"
    /\ tpc' = TasksAfterFailure(tpc)
    /\ UNCHANGED <<max_concurrent_tasks, semaphore, positions, scenario,
                   tst, tres, results>>
    /\ UNCHANGED notAsync

ExtractSeq ==
    /\ recSeq = "unset"
    /\ recSeq' = ExtractRecommendationSeq(text)
    /\ UNCHANGED <<text, recAsync>>
    /\ UNCHANGED notExtract

ExtractAsync ==
    /\ recAsync = "unset"
    /\ recAsync' = ExtractRecommendationAsync(text)
    /\ UNCHANGED <<text, recSeq>>
    /\ UNCHANGED notExtract

(***************************************************************************)
(* retry_on_failure (SpecRetry): one call of a wrapped function, one loop  *)
(* iteration per step.  Each invocation of the wrapped function returns a  *)
(* value or raises; an error is the name of its class and the number of    *)
(* the invocation that raised it, so that two errors of a class differ.    *)
(***************************************************************************)
MaxRetries == 3

\* requests.RequestException and the builtin ConnectionError are the classes
\* of the first except clause; ValueError and APIError stand for the rest.
ErrorClasses == {"RequestException", "ConnectionError", "ValueError", "APIError"}

\* Mutant: every exception is retried.
IsTransientAny(class) == TRUE

IsTransient(class) == class \in {"RequestException", "ConnectionError"}

ReturnValues == {StrV(<<"success">>), NoneV}

\* What the n-th invocation of the wrapped function can do.
FuncOutcomes(n) ==
    {[raises |-> FALSE, value |-> v] : v \in ReturnValues}
        \cup {[raises |-> TRUE, error |-> [class |-> c, invocation |-> n]] :
                 c \in ErrorClasses}

\* APIError(f"API call failed after {max_retries} attempts: {e}")
APIErrorAfter(m, e) == [class |-> "APIError", attempts |-> m, cause |-> e]

\* Mutant: the last attempt is taken to be the one after the loop's last.
LastAttemptOffByOne(a, m) == a = m

\* `attempt == max_retries - 1`
LastAttempt(a, m) == a = m - 1

\* Mutant: the wrapper drops the result.
WrapperReturnsNone(v) == [kind |-> "return", value |-> NoneV]

\* `return func(*args, **kwargs)`
WrapperReturns(v) == [kind |-> "return", value |-> v]

WrapperRaises(e) == [kind |-> "raise", error |-> e]

CallEvent(got) == [event |-> "call", got |-> got]
\* time.sleep(delay)
SleepEvent(seconds) == [event |-> "sleep", seconds |-> seconds]

\* The delays the decorator is given: none, or the default of one second.
DEFAULT_DELAY == 1
Delays == {0, DEFAULT_DELAY}

\* The functions the decorator wraps: any function, and the four service
\* methods decorated with @retry_on_failure(max_retries=settings.max_retries).
ServiceMethods == {"call_deepseek", "get_market_news", "get_ticker_news", "get_ticker_data"}
WrappedFunctions == {"func"} \cup ServiceMethods

\* What the wrapper gets from an invocation whose underlying request did
\* `request`.  The body of each service method is one try/except Exception:
\* call_deepseek returns the error string for whatever the request raised,
\* the three fetches raise APIError in its place.  Any other function is
\* its request.
WrappedBody(name, request) ==
    IF name = "func" \/ ~request.raises THEN request
    ELSE IF name = "call_deepseek" THEN [raises |-> FALSE, value |-> AI_ERROR]
    ELSE [raises |-> TRUE,
          error |-> [class |-> "APIError", invocation |-> request.error.invocation]]

\* lines 24-35: one iteration of `for attempt in range(max_retries)`
RetryAttempt ==
    /\ retry_pc = "loop"
    /\ attempt < max_retries
    /\ \E request \in FuncOutcomes(attempt + 1) :
          /\ request_log' = Append(request_log, request)
          /\ LET got == WrappedBody(wrapped, request)
             IN  IF ~got.raises
                 THEN /\ retry_events' = Append(retry_events, CallEvent(got))
                      /\ retry_outcome' = WrapperReturns(got.value)
                      /\ retry_pc' = "done"
                      /\ UNCHANGED attempt
                 ELSE IF IsTransient(got.error.class)
                 THEN IF LastAttempt(attempt, max_retries)
                      THEN /\ retry_events' = Append(retry_events, CallEvent(got))
                           /\ retry_outcome' =
                                  WrapperRaises(APIErrorAfter(max_retries, got.error))
                           /\ retry_pc' = "done"
                           /\ UNCHANGED attempt
                      ELSE /\ retry_events' =
                                  retry_events \o <<CallEvent(got), SleepEvent(delay)>>
                           /\ attempt' = attempt + 1
                           /\ UNCHANGED <<retry_pc, retry_outcome>>
                 ELSE /\ retry_events' = Append(retry_events, CallEvent(got))
                      /\ retry_outcome' = WrapperRaises(got.error)
                      /\ retry_pc' = "done"
                      /\ UNCHANGED attempt
    /\ UNCHANGED <<max_retries, delay, wrapped>>
    /\ UNCHANGED notRetry

\* The for loop ran out (max_retries <= 0 leaves it at once): the wrapper
\* falls off its end and returns None.
RetryLoopExhausted ==
    /\ retry_pc = "loop"
    /\ attempt >= max_retries
    /\ retry_outcome' = [kind |-> "return", value |-> NoneV]
    /\ retry_pc' = "done"
    /\ UNCHANGED <<max_retries, delay, attempt, retry_events, wrapped, request_log>>
    /\ UNCHANGED notRetry

(***************************************************************************)
(* The PerformanceMonitor and monitor_performance.  The dictionaries are   *)
(* defaultdicts: a key that was never written reads as 0.  A key           *)
(* f"{service_name}_{status}" is the pair of its two parts.  A sample is   *)
(* the number of the recording that made it (its timestamp).               *)
(*                                                                         *)
(* SpecMonitor runs instrumented calls one after the other;                *)
(* SpecMonitorThreads runs one instrumented call in each of several        *)
(* threads, the steps of the wrapper interleaved as the interpreter may    *)
(* switch threads: between two method calls and, inside increment_counter  *)
(* and record_error, between the read and the write of `d[key] += 1`.      *)
(***************************************************************************)
MAX_HISTORY == 100

MaxCalls == 102
MaxThreads == 2

\* the one instrumented service: @monitor_performance("ai_service")
SERVICE == "ai_service"

NoCounts == [k \in {} |-> 0]

\* defaultdict(int).__getitem__
Get(d, key) == IF key \in DOMAIN d THEN d[key] ELSE 0

\* d[key] = value
Put(d, key, value) ==
    [k \in DOMAIN d \cup {key} |-> IF k = key THEN value ELSE d[k]]

\* d[key] += 1, by one thread without interruption
Increment(d, key) == Put(d, key, Get(d, key) + 1)

\* Mutant: the newest sample is the one dropped (deque.pop).
pop(d) == SubSeq(d, 1, Len(d) - 1)

\* deque.popleft
popleft(d) == Tail(d)

\* PerformanceMonitor.record_execution_time
record_execution_time(times, sample) ==
    LET appended == Append(times, sample)
    IN  IF Len(appended) > MAX_HISTORY THEN popleft(appended) ELSE appended

\* Mutant: every call is counted as a success.
CounterStatusAlwaysSuccess(raised) == "success"

\* The status monitor_performance counts a call under.
CounterStatus(raised) == IF raised THEN "error" ELSE "success"

\* What the wrapped function does in one call: it returns a value or raises
\* an exception; type(e).__name__ is the error's class.
MonitoredOutcomes ==
    {[raises |-> FALSE, value |-> AI_TEXT],
     [raises |-> TRUE, error |-> [class |-> "ValueError", invocation |-> 1]]}

\* `return result` and the bare `raise`: what the caller of the wrapper gets
Handed(got) == got

\* lines 90-112: one instrumented call, run without another thread in between
MonitoredCall ==
    /\ thread_pc = <<>>
    /\ clock < MaxCalls
    /\ \E got \in MonitoredOutcomes :
          /\ execution_times' = record_execution_time(execution_times, clock + 1)
          /\ clock' = clock + 1
          /\ counters' = Increment(counters, <<SERVICE, CounterStatus(got.raises)>>)
          /\ monitor_errors' =
                 IF got.raises
                 THEN Increment(monitor_errors, <<SERVICE, got.error.class>>)
                 ELSE monitor_errors
          /\ last_call' = [kind |-> "call", did |-> got, handed |-> Handed(got)]
    /\ UNCHANGED <<thread_pc, thread_tmp, thread_outcome>>
    /\ UNCHANGED notMonitor

Threads == DOMAIN thread_pc

\* line 93: the wrapped function runs
ThreadCall(t) ==
    /\ thread_pc[t] = "call"
    /\ \E got \in MonitoredOutcomes :
          thread_outcome' = [thread_outcome EXCEPT ![t] = got]
    /\ thread_pc' = [thread_pc EXCEPT ![t] = "append"]
    /\ UNCHANGED <<counters, monitor_errors, execution_times, clock, last_call,
                   thread_tmp>>
    /\ UNCHANGED notMonitor

\* lines 22-25: deque.append
ThreadAppend(t) ==
    /\ thread_pc[t] = "append"
    /\ execution_times' = Append(execution_times, clock + 1)
    /\ clock' = clock + 1
    /\ thread_pc' = [thread_pc EXCEPT ![t] = "trim"]
    /\ UNCHANGED <<counters, monitor_errors, last_call, thread_tmp, thread_outcome>>
    /\ UNCHANGED notMonitor

\* lines 28-29: the length check and popleft
ThreadTrim(t) ==
    /\ thread_pc[t] = "trim"
    /\ execution_times' =
           IF Len(execution_times) > MAX_HISTORY
           THEN popleft(execution_times) ELSE execution_times
    /\ thread_pc' = [thread_pc EXCEPT ![t] = "load_counter"]
    /\ UNCHANGED <<counters, monitor_errors, clock, last_call, thread_tmp,
                   thread_outcome>>
    /\ UNCHANGED notMonitor

\* line 34, `self.counters[counter_key] += 1`: the read
ThreadLoadCounter(t) ==
    /\ thread_pc[t] = "load_counter"
    /\ thread_tmp' =
           [thread_tmp EXCEPT ![t] =
               Get(counters, <<SERVICE, CounterStatus(thread_outcome[t].raises)>>)]
    /\ thread_pc' = [thread_pc EXCEPT ![t] = "store_counter"]
    /\ UNCHANGED <<counters, monitor_errors, execution_times, clock, last_call,
                   thread_outcome>>
    /\ UNCHANGED notMonitor

\* line 34: the write
ThreadStoreCounter(t) ==
    /\ thread_pc[t] = "store_counter"
    /\ counters' = Put(counters, <<SERVICE, CounterStatus(thread_outcome[t].raises)>>,
                       thread_tmp[t] + 1)
    /\ thread_pc' = [thread_pc EXCEPT ![t] =
                        IF thread_outcome[t].raises THEN "load_error" ELSE "done"]
    /\ UNCHANGED <<monitor_errors, execution_times, clock, last_call, thread_tmp,
                   thread_outcome>>
    /\ UNCHANGED notMonitor

\* line 39, `self.errors[error_key] += 1`: the read
ThreadLoadError(t) ==
    /\ thread_pc[t] = "load_error"
    /\ thread_tmp' =
           [thread_tmp EXCEPT ![t] =
               Get(monitor_errors, <<SERVICE, thread_outcome[t].error.class>>)]
    /\ thread_pc' = [thread_pc EXCEPT ![t] = "store_error"]
    /\ UNCHANGED <<counters, monitor_errors, execution_times, clock, last_call,
                   thread_outcome>>
    /\ UNCHANGED notMonitor

\* line 39: the write
ThreadStoreError(t) ==
    /\ thread_pc[t] = "store_error"
    /\ monitor_errors' = Put(monitor_errors, <<SERVICE, thread_outcome[t].error.class>>,
                             thread_tmp[t] + 1)
    /\ thread_pc' = [thread_pc EXCEPT ![t] = "done"]
    /\ UNCHANGED <<counters, execution_times, clock, last_call, thread_tmp,
                   thread_outcome>>
    /\ UNCHANGED notMonitor

(***************************************************************************)
(* The pydantic models (SpecModels): PortfolioPosition built directly and  *)
(* through Portfolio.from_dict.  A ticker is the sequence of its           *)
(* characters.                                                             *)
(***************************************************************************)
MaxTickerLen == 3
MIN_TICKER_LENGTH == 3

\* a lower-case letter, an upper-case letter and a digit
TickerChars == {"a", "A", "1"}

RUB_KEY == <<"R", "U", "B">>

\* The tickers tried: every string of up to MaxTickerLen characters, and the
\* cash key of from_dict in both cases.
TickerInputs == SeqsUpTo(TickerChars, MaxTickerLen) \cup {RUB_KEY, <<"r", "u", "b">>}

QuantityInputs == (-1)..MaxQty

\* str.upper, character by character
UpperChar(c) ==
    CASE c = "a" -> "A"
      [] c = "r" -> "R"
      [] c = "u" -> "U"
      [] c = "b" -> "B"
      [] OTHER -> c

upper(v) == [k \in 1..Len(v) |-> UpperChar(v[k])]

\* Mutant: two characters are enough.
TickerTooShortBelowTwo(v) == Len(v) < MIN_TICKER_LENGTH - 1

\* `len(v) < 3`
TickerTooShort(v) == Len(v) < MIN_TICKER_LENGTH

Valid(v) == [ok |-> TRUE, value |-> v]
Invalid(message) == [ok |-> FALSE, value |-> message]

\* PortfolioPosition.validate_ticker
validate_ticker(v) ==
    IF Len(v) = 0 \/ TickerTooShort(v)
    THEN Invalid("Ticker must be at least 3 characters")
    ELSE Valid(upper(v))

\* PortfolioPosition.validate_quantity
validate_quantity(v) ==
    IF v < 0 THEN Invalid("Quantity must be non-negative") ELSE Valid(v)

Built(v) == [kind |-> "built", value |-> v]
ValidationError(messages) == [kind |-> "ValidationError", value |-> messages]

\* PortfolioPosition(ticker=.., quantity=..): both validators run, the
\* failures are collected into one ValidationError
PortfolioPosition(ticker, quantity) ==
    LET t == validate_ticker(ticker)
        q == validate_quantity(quantity)
    IN  IF t.ok /\ q.ok
        THEN Built([ticker |-> t.value, quantity |-> q.value])
        ELSE ValidationError((IF t.ok THEN {} ELSE {t.value})
                                 \cup (IF q.ok THEN {} ELSE {q.value}))

\* Portfolio.from_dict({key: value}): the key "RUB" is the cash, any other key
\* is a ticker
from_dict(key, value) ==
    IF key = RUB_KEY
    THEN Built([positions |-> <<>>, cash_rub |-> value])
    ELSE LET position == PortfolioPosition(key, value)
         IN  IF position.kind = "built"
             THEN Built([positions |-> <<position.value>>, cash_rub |-> 0])
             ELSE position

\* The confidences tried, in tenths: from -0.2 to 1.2
ConfidenceInputs == (-2)..(CONFIDENCE_ONE + 2)

\* AnalysisResult(ticker=.., recommendation=.., confidence=.., analysis_data={})
NewAnalysisResult(ticker, recommendation, confidence, analysis_data) ==
    IF AnalysisResultValid(confidence, analysis_data)
    THEN Built(AnalysisResult(ticker, recommendation, confidence, analysis_data))
    ELSE ValidationError({"Confidence must be between 0 and 1"})

NoData == [k \in {} |-> NoneV]

ConstructResult ==
    /\ built_result.kind = "none"
    /\ \E r \in Recommendations :
          built_result' = NewAnalysisResult(<<"A", "A", "A">>, r, in_confidence, NoData)
    /\ UNCHANGED <<in_ticker, in_quantity, built, built_from_dict, in_confidence,
                   in_tickers, built_portfolio>>
    /\ UNCHANGED notModel

Construct ==
    /\ built.kind = "none"
    /\ built' = PortfolioPosition(in_ticker, in_quantity)
    /\ UNCHANGED <<in_ticker, in_quantity, built_from_dict, in_confidence, built_result,
                   in_tickers, built_portfolio>>
    /\ UNCHANGED notModel

FromDict ==
    /\ built_from_dict.kind = "none"
    /\ built_from_dict' = from_dict(in_ticker, in_quantity)
    /\ UNCHANGED <<in_ticker, in_quantity, built, in_confidence, built_result,
                   in_tickers, built_portfolio>>
    /\ UNCHANGED notModel

\* The longest list of tickers a portfolio is built from.
MaxPortfolioLen == 2

\* The keys a portfolio is built from: spellings of one ticker, another
\* ticker, the cash key and its lower-case spelling, and a ticker too short.
PortfolioKeys ==
    {<<"a", "a", "a">>, <<"A", "A", "A">>, <<"1", "1", "1">>, RUB_KEY,
     <<"r", "u", "b">>, <<"a", "a">>}

PortfolioInputs == SeqsUpTo(PortfolioKeys, MaxPortfolioLen)

\* [PortfolioPosition(ticker=k, quantity=v) for k in keys]: the positions, or
\* the ValidationError of the first key that is rejected
RECURSIVE PositionsFor(_, _)
PositionsFor(keys, quantity) ==
    IF Len(keys) = 0 THEN Built(<<>>)
    ELSE LET position == PortfolioPosition(keys[1], quantity)
             rest == PositionsFor(Tail(keys), quantity)
         IN  IF position.kind # "built" THEN position
             ELSE IF rest.kind # "built" THEN rest
             ELSE Built(<<position.value>> \o rest.value)

\* Portfolio(positions=.., cash_rub=..): the model declares no validator of
\* its own; the positions are taken as they are.
Portfolio(made, cash_rub) ==
    IF made.kind # "built" THEN made
    ELSE Built([positions |-> made.value, cash_rub |-> cash_rub])

InRange(keys, key) == \E k \in 1..Len(keys) : keys[k] = key

\* Portfolio.from_dict(data) for the keys of data in their order: "RUB" is
\* the cash, every other key a position
PortfolioFromDict(keys, value) ==
    LET isTicker(k) == k # RUB_KEY
    IN  Portfolio(PositionsFor(SelectSeq(keys, isTicker), value),
                  IF InRange(keys, RUB_KEY) THEN value ELSE 0)

\* Portfolio(positions=[PortfolioPosition(..), ..])
ConstructPortfolio ==
    /\ built_portfolio.kind = "none"
    /\ built_portfolio' = Portfolio(PositionsFor(in_tickers, in_quantity), 0)
    /\ UNCHANGED <<in_ticker, in_quantity, built, built_from_dict, in_confidence,
                   built_result, in_tickers>>
    /\ UNCHANGED notModel

\* Portfolio.from_dict({..}): the keys of a dict are pairwise different
PortfolioFromDictCall ==
    /\ built_portfolio.kind = "none"
    /\ \A i \in 1..Len(in_tickers) : \A j \in 1..Len(in_tickers) :
           i # j => in_tickers[i] # in_tickers[j]
    /\ built_portfolio' = PortfolioFromDict(in_tickers, in_quantity)
    /\ UNCHANGED <<in_ticker, in_quantity, built, built_from_dict, in_confidence,
                   built_result, in_tickers>>
    /\ UNCHANGED notModel

(***************************************************************************)
(* The sequential controller (SpecSequential): analyze_portfolio goes      *)
(* through the positions in order; for each it invokes the chain, builds   *)
(* the result (or, in the except branch, the error result) and stores it   *)
(* under the position's ticker.                                            *)
(***************************************************************************)
\* chain.invoke(initial_state) as one call: the stages from `node` to END
RECURSIVE RunChain(_, _, _, _)
RunChain(edges, node, state, env) ==
    IF node = "END" THEN [raised |-> FALSE, state |-> state]
    ELSE LET upd == StageResult(node, state, env)
         IN  IF upd.raised THEN [raised |-> TRUE, state |-> state]
             ELSE RunChain(edges, Successor(edges, node), Merge(state, upd), env)

\* `for position in portfolio.positions`: the position the loop is at
\* analyze_portfolio(portfolio) as a function of the positions and of what
\* the outside world answers for each of them: the for loop from position i
\* on, portfolio_results being acc
RECURSIVE SequentialLoop(_, _, _, _)
SequentialLoop(ps, envs, i, acc) ==
    IF i > Len(ps) THEN acc
    ELSE LET ran == RunChain(SeqEdges, Successor(SeqEdges, "START"),
                             InitialState(ps[i].ticker, ps[i].quantity), envs[i])
             out == AnalyzePortfolioTail(ps[i].ticker, ran.state, ran.raised)
         IN  SequentialLoop(ps, envs, i + 1, Put(acc, ps[i].ticker, out.value))

analyze_portfolio(ps, envs) == SequentialLoop(ps, envs, 1, <<>>)

LoopAt(i) ==
    /\ ctl = "looping"
    /\ i \in 1..Len(positions)
    /\ tpc[i] # "done"
    /\ \A j \in 1..(i - 1) : tpc[j] = "done"

\* lines 188-203: initial_state and chain.invoke; the stages catch what their
\* collaborators raise, the compiled graph itself may still raise
SeqInvoke(i) ==
    /\ LoopAt(i)
    /\ tpc[i] = "pending"
    /\ LET ran == RunChain(SeqEdges, Successor(SeqEdges, "START"),
                           InitialState(positions[i].ticker, positions[i].quantity),
                           scenario[i])
       IN  \E graph_raises \in BOOLEAN :
               IF graph_raises \/ ran.raised
               THEN /\ tpc' = [tpc EXCEPT ![i] = "RAISED"]
                    /\ UNCHANGED tst
               ELSE /\ tpc' = [tpc EXCEPT ![i] = "END"]
                    /\ tst' = [tst EXCEPT ![i] = ran.state]
    /\ UNCHANGED <<max_concurrent_tasks, semaphore, positions, scenario, tres,
                   ctl, results>>
    /\ UNCHANGED notAsync

\* lines 205-235: the recommendation and the AnalysisResult, or the except
\* branch; either way portfolio_results[position.ticker] is assigned
SeqRecord(i) ==
    /\ LoopAt(i)
    /\ tpc[i] \in {"END", "RAISED"}
    /\ LET out == AnalyzePortfolioTail(positions[i].ticker, tst[i], tpc[i] = "RAISED")
       IN  /\ tres' = [tres EXCEPT ![i] = out]
           /\ results' = Put(results, positions[i].ticker, out.value)
    /\ tpc' = [tpc EXCEPT ![i] = "done"]
    /\ UNCHANGED <<max_concurrent_tasks, semaphore, positions, scenario, tst, ctl>>
    /\ UNCHANGED notAsync

\* line 237: the loop is over, portfolio_results is returned
SeqReturn ==
    /\ ctl = "looping"
    /\ \A i \in 1..Len(positions) : tpc[i] = "done"
    /\ ctl' = "returned"
    /\ UNCHANGED <<max_concurrent_tasks, semaphore, positions, scenario, tpc,
                   tst, tres, results>>
    /\ UNCHANGED notAsync

(***************************************************************************)
(* truncate_text as final_analysis uses it (SpecTruncate): a text is the   *)
(* sequence of its characters.                                             *)
(***************************************************************************)
\* truncate_text(state[...], 300)
SUMMARY_LIMIT == 300
ELLIPSIS == <<".", ".", ".">>

\* The longest stage output the model draws, in characters.
MaxStageTextLen == 305

\* Mutant: the marker is put inside the limit.
truncate_text_within_limit(txt, max_length) ==
    IF Len(txt) <= max_length THEN txt
    ELSE SubSeq(txt, 1, max_length - Len(ELLIPSIS)) \o ELLIPSIS

\* `text if len(text) <= max_length else text[:max_length] + "..."`
truncate_text(txt, max_length) ==
    IF Len(txt) <= max_length THEN txt
    ELSE SubSeq(txt, 1, max_length) \o ELLIPSIS

\* The four fields final_analysis reads for its prompt.
SummaryFields == {"market_news", "semantic", "moex_data_analysis", "ifrs_data"}

\* A stage output of n characters: letters, so that a cut shows.
StageText(n) == [i \in 1..n |-> IF i % 2 = 1 THEN "a" ELSE "b"]

\* lines 128-131: one of the four calls of truncate_text
TruncateSummary ==
    /\ ~prompt_summary.set
    /\ summary_field \in SummaryFields
    /\ prompt_summary' = [set |-> TRUE, text |-> truncate_text(stage_text, SUMMARY_LIMIT)]
    /\ UNCHANGED <<summary_field, stage_text>>
    /\ UNCHANGED notTrunc

(***************************************************************************)
(* The specifications.  Each runs one part of the program; the variables  *)
(* of the other parts stay idle.                                          *)
(***************************************************************************)
ExtractIdle ==
    /\ text = NoneV
    /\ recSeq = "unset"
    /\ recAsync = "unset"

PipeIdle ==
    /\ mode = "none"
    /\ st = InitialState("AAA", 0)
    /\ pc = "idle"
    /\ trace = <<>>
    /\ calls = <<>>
    /\ errors = <<>>
    /\ outcome = Pending

AsyncIdle ==
    /\ max_concurrent_tasks = 0
    /\ semaphore = 0
    /\ positions = <<>>
    /\ scenario = <<>>
    /\ tpc = <<>>
    /\ tst = <<>>
    /\ tres = <<>>
    /\ ctl = "idle"
    /\ results = <<>>

RebalIdle ==
    /\ price_getter = AnyGetter
    /\ analysis_results = <<>>
    /\ portfolio = [positions |-> <<>>, cash_rub |-> 0]
    /\ rpc = "idle"
    /\ idx = 0
    /\ cash = 0
    /\ rebalancing_suggestions = NoSuggestions
    /\ buy_tickers = <<>>
    /\ lookups = NoLookups
    /\ buy_start_cash = 0

RetryIdle ==
    /\ max_retries = 0
    /\ delay = 0
    /\ attempt = 0
    /\ retry_pc = "idle"
    /\ retry_events = <<>>
    /\ retry_outcome = [kind |-> "none"]
    /\ wrapped = "none"
    /\ request_log = <<>>

MonitorIdle ==
    /\ counters = NoCounts
    /\ monitor_errors = NoCounts
    /\ execution_times = <<>>
    /\ clock = 0
    /\ last_call = [kind |-> "none"]
    /\ thread_pc = <<>>
    /\ thread_tmp = <<>>
    /\ thread_outcome = <<>>

ModelIdle ==
    /\ in_ticker = <<>>
    /\ in_quantity = 0
    /\ built = [kind |-> "none"]
    /\ built_from_dict = [kind |-> "none"]
    /\ in_confidence = 0
    /\ built_result = [kind |-> "none"]
    /\ in_tickers = <<>>
    /\ built_portfolio = [kind |-> "none"]

TruncIdle ==
    /\ summary_field = "none"
    /\ stage_text = <<>>
    /\ prompt_summary = [set |-> FALSE, text |-> <<>>]

UtilIdle == RetryIdle /\ MonitorIdle /\ ModelIdle /\ TruncIdle
AnalyzerIdle == ExtractIdle /\ PipeIdle /\ AsyncIdle /\ RebalIdle

InitExtract ==
    /\ UtilIdle
    /\ PipeIdle
    /\ AsyncIdle
    /\ RebalIdle
    /\ text \in {StrV(p) : p \in Texts}
    /\ recSeq = "unset"
    /\ recAsync = "unset"

NextExtract == ExtractSeq \/ ExtractAsync

SpecExtract == InitExtract /\ [][NextExtract]_vars

InitPipeline ==
    /\ UtilIdle
    /\ ExtractIdle
    /\ AsyncIdle
    /\ RebalIdle
    /\ mode \in {"seq", "async"}
    /\ st = InitialState("AAA", 1)
    /\ pc = "START"
    /\ trace = <<>>
    /\ calls = <<>>
    /\ errors = <<>>
    /\ outcome = Pending

NextPipeline ==
    \/ Invoke
    \/ StageMarketNews
    \/ StageNews
    \/ StageGrade
    \/ StageMoex
    \/ StageTrade
    \/ StageIfrs
    \/ StageFinal
    \/ FinishSeq
    \/ FinishAsync

SpecPipeline == InitPipeline /\ [][NextPipeline]_vars

InitAsync ==
    /\ UtilIdle
    /\ ExtractIdle
    /\ PipeIdle
    /\ RebalIdle
    /\ max_concurrent_tasks \in 1..MaxConcurrent
    /\ semaphore = max_concurrent_tasks
    /\ positions \in {PositionsOf(p) : p \in Portfolios}
    /\ scenario \in [1..Len(positions) -> Scenarios]
    /\ tpc = [i \in 1..Len(positions) |-> "pending"]
    /\ tst = [i \in 1..Len(positions) |->
                 InitialState(positions[i].ticker, positions[i].quantity)]
    /\ tres = [i \in 1..Len(positions) |-> Pending]
    /\ ctl = "gathering"
    /\ results = <<>>

NextAsync ==
    \/ \E i \in 1..Len(positions) : Acquire(i)
    \/ \E i \in 1..Len(positions) : TaskStage(i)
    \/ \E i \in 1..Len(positions) : TaskFinish(i)
    \/ GatherReturn
    \/ GatherRaise

SpecAsync == InitAsync /\ [][NextAsync]_vars

\* The event loop keeps running its tasks: a stage running in its worker
\* thread ends (every collaborator call terminates) and the task awaiting it
\* is resumed; asyncio.Semaphore wakes its waiters in the order they came, so
\* a task waiting at the gate is not passed over for ever.
\* The progress of the tasks depends neither on the tickers' names nor on
\* which collaborator failed, so the fair runs draw portfolios of distinct
\* tickers and, for each position, a run that succeeds or a run that fails.
FairPortfolios == {<<>>, <<"AAA">>, <<"AAA", "BBB">>, <<"AAA", "BBB", "CCC">>}
FairScenarios == {EnvAllGood, EnvNoContent}
TaskSlots == UNION {DOMAIN p : p \in FairPortfolios}

InitAsyncFair ==
    /\ UtilIdle
    /\ ExtractIdle
    /\ PipeIdle
    /\ RebalIdle
    /\ max_concurrent_tasks \in 1..MaxConcurrent
    /\ semaphore = max_concurrent_tasks
    /\ positions \in {PositionsOf(p) : p \in FairPortfolios}
    /\ scenario \in [1..Len(positions) -> FairScenarios]
    /\ tpc = [i \in 1..Len(positions) |-> "pending"]
    /\ tst = [i \in 1..Len(positions) |->
                 InitialState(positions[i].ticker, positions[i].quantity)]
    /\ tres = [i \in 1..Len(positions) |-> Pending]
    /\ ctl = "gathering"
    /\ results = <<>>

SlotAcquire(i) == i <= Len(positions) /\ Acquire(i)
SlotStage(i) == i <= Len(positions) /\ TaskStage(i)
SlotFinish(i) == i <= Len(positions) /\ TaskFinish(i)

InitSequential ==
    /\ UtilIdle
    /\ ExtractIdle
    /\ PipeIdle
    /\ RebalIdle
    /\ max_concurrent_tasks = 0
    /\ semaphore = 0
    /\ positions \in {PositionsOf(p) : p \in Portfolios}
    /\ scenario \in [1..Len(positions) -> Scenarios]
    /\ tpc = [i \in 1..Len(positions) |-> "pending"]
    /\ tst = [i \in 1..Len(positions) |->
                 InitialState(positions[i].ticker, positions[i].quantity)]
    /\ tres = [i \in 1..Len(positions) |-> Pending]
    /\ ctl = "looping"
    /\ results = <<>>

NextSequential ==
    \/ \E i \in 1..Len(positions) : SeqInvoke(i)
    \/ \E i \in 1..Len(positions) : SeqRecord(i)
    \/ SeqReturn

SpecSequential == InitSequential /\ [][NextSequential]_vars

SpecAsyncFair ==
    /\ InitAsyncFair
    /\ [][NextAsync]_vars
    /\ \A i \in TaskSlots : SF_vars(SlotAcquire(i))
    /\ \A i \in TaskSlots : WF_vars(SlotStage(i))
    /\ \A i \in TaskSlots : WF_vars(SlotFinish(i))

InitRebalance ==
    /\ UtilIdle
    /\ ExtractIdle
    /\ PipeIdle
    /\ AsyncIdle
    /\ price_getter = AnyGetter
    /\ analysis_results \in AnalysisResultsInputs
    /\ portfolio \in {[positions |-> ps, cash_rub |-> c] :
                         ps \in PositionLists(Len(RebalTickers)), c \in 0..MaxCash}
    /\ rpc = "called"
    /\ idx = 0
    /\ cash = 0
    /\ rebalancing_suggestions = NoSuggestions
    /\ buy_tickers = <<>>
    /\ lookups = NoLookups
    /\ buy_start_cash = 0

NextRebalance ==
    \/ Enter
    \/ SellIteration
    \/ StartBuying
    \/ BuyIteration
    \/ Finish

SpecRebalance == InitRebalance /\ [][NextRebalance]_vars

\* test_suggest_rebalancing_with_cash and its neighbours: the two tickers
\* with the prices of the test's table, each recommended any way, each held
\* in the test's quantity or not at all, the cash of the test or none.
InitScenario ==
    /\ UtilIdle
    /\ ExtractIdle
    /\ PipeIdle
    /\ AsyncIdle
    /\ price_getter = TableGetter([t \in {"AAA", "BBB"} |->
                                      IF t = "AAA" THEN SCENARIO_AAA_PRICE
                                      ELSE SCENARIO_BBB_PRICE])
    /\ analysis_results \in
           {<<[ticker |-> "AAA", recommendation |-> a],
              [ticker |-> "BBB", recommendation |-> b]>> :
               a \in Recommendations, b \in Recommendations}
    /\ portfolio \in
           {[positions |-> <<[ticker |-> "AAA", quantity |-> qa],
                             [ticker |-> "BBB", quantity |-> qb]>>,
             cash_rub |-> c] :
               qa \in {0, SCENARIO_AAA_QUANTITY}, qb \in {0, SCENARIO_BBB_QUANTITY},
               c \in {0, SCENARIO_CASH}}
    /\ rpc = "called"
    /\ idx = 0
    /\ cash = 0
    /\ rebalancing_suggestions = NoSuggestions
    /\ buy_tickers = <<>>
    /\ lookups = NoLookups
    /\ buy_start_cash = 0

SpecScenario == InitScenario /\ [][NextRebalance]_vars

InitRetry ==
    /\ AnalyzerIdle
    /\ TruncIdle
    /\ MonitorIdle
    /\ ModelIdle
    /\ max_retries \in 0..MaxRetries
    /\ wrapped \in WrappedFunctions
    /\ delay \in IF wrapped \in ServiceMethods THEN {DEFAULT_DELAY} ELSE Delays
    /\ attempt = 0
    /\ retry_pc = "loop"
    /\ retry_events = <<>>
    /\ retry_outcome = [kind |-> "none"]
    /\ request_log = <<>>

NextRetry == RetryAttempt \/ RetryLoopExhausted

SpecRetry == InitRetry /\ [][NextRetry]_vars

InitTruncate ==
    /\ AnalyzerIdle
    /\ RetryIdle
    /\ MonitorIdle
    /\ ModelIdle
    /\ summary_field \in SummaryFields
    /\ stage_text \in {StageText(n) : n \in 0..MaxStageTextLen}
    /\ prompt_summary = [set |-> FALSE, text |-> <<>>]

NextTruncate == TruncateSummary

SpecTruncate == InitTruncate /\ [][NextTruncate]_vars

InitModels ==
    /\ AnalyzerIdle
    /\ TruncIdle
    /\ RetryIdle
    /\ MonitorIdle
    /\ in_ticker \in TickerInputs
    /\ in_quantity \in QuantityInputs
    /\ built = [kind |-> "none"]
    /\ built_from_dict = [kind |-> "none"]
    /\ in_confidence \in ConfidenceInputs
    /\ built_result = [kind |-> "none"]
    /\ in_tickers = <<>>
    /\ built_portfolio = [kind |-> "none"]

InitPortfolio ==
    /\ AnalyzerIdle
    /\ TruncIdle
    /\ RetryIdle
    /\ MonitorIdle
    /\ in_ticker = <<>>
    /\ in_quantity \in 1..2
    /\ built = [kind |-> "none"]
    /\ built_from_dict = [kind |-> "none"]
    /\ in_confidence = 0
    /\ built_result = [kind |-> "none"]
    /\ in_tickers \in PortfolioInputs
    /\ built_portfolio = [kind |-> "none"]

NextPortfolio == ConstructPortfolio \/ PortfolioFromDictCall

SpecPortfolio == InitPortfolio /\ [][NextPortfolio]_vars

NextModels == Construct \/ FromDict \/ ConstructResult

SpecModels == InitModels /\ [][NextModels]_vars

\* The monitor as PerformanceMonitor() leaves it.
InitMonitor ==
    /\ AnalyzerIdle
    /\ TruncIdle
    /\ RetryIdle
    /\ ModelIdle
    /\ counters = NoCounts
    /\ monitor_errors = NoCounts
    /\ execution_times = <<>>
    /\ clock = 0
    /\ last_call = [kind |-> "none"]
    /\ thread_pc = <<>>
    /\ thread_tmp = <<>>
    /\ thread_outcome = <<>>

NextMonitor == MonitoredCall

SpecMonitor == InitMonitor /\ [][NextMonitor]_vars

\* The threads start on a monitor that is new, or on one that MAX_HISTORY
\* successful calls have filled.
InitMonitorThreads ==
    /\ AnalyzerIdle
    /\ TruncIdle
    /\ RetryIdle
    /\ ModelIdle
    /\ clock \in {0, MAX_HISTORY}
    /\ counters = IF clock = 0 THEN NoCounts
                  ELSE Put(NoCounts, <<SERVICE, "success">>, clock)
    /\ monitor_errors = NoCounts
    /\ execution_times = [k \in 1..clock |-> k]
    /\ last_call = [kind |-> "none"]
    /\ \E n \in 1..MaxThreads :
          /\ thread_pc = [t \in 1..n |-> "call"]
          /\ thread_tmp = [t \in 1..n |-> 0]
          /\ thread_outcome = [t \in 1..n |-> [raises |-> FALSE, value |-> NoneV]]

NextMonitorThreads ==
    \/ \E t \in Threads : ThreadCall(t)
    \/ \E t \in Threads : ThreadAppend(t)
    \/ \E t \in Threads : ThreadTrim(t)
    \/ \E t \in Threads : ThreadLoadCounter(t)
    \/ \E t \in Threads : ThreadStoreCounter(t)
    \/ \E t \in Threads : ThreadLoadError(t)
    \/ \E t \in Threads : ThreadStoreError(t)

SpecMonitorThreads == InitMonitorThreads /\ [][NextMonitorThreads]_vars

(***************************************************************************)
(* The claims                                                            *)
(***************************************************************************)
InsideGate == {i \in 1..Len(positions) : Inside(i)}

\* C1: in every reachable state of every interleaving, the number of pipelines
\* between acquiring and releasing the semaphore is at most
\* max_concurrent_tasks.
C1_AtMostKInside == Cardinality(InsideGate) <= max_concurrent_tasks

\* more positions than permits: all permits are out and a task still waits
C1_Witness ==
    /\ Len(positions) > max_concurrent_tasks
    /\ Cardinality(InsideGate) = max_concurrent_tasks
    /\ \E i \in 1..Len(positions) : tpc[i] = "pending"
    /\ \E i \in 1..Len(positions) : tpc[i] = "done"

\* C2: analyze_portfolio_async always returns a mapping, with exactly one
\* entry per position, and the entry under key t is an AnalysisResult whose
\* ticker is t, whatever the order of completion and whichever runs failed.
C2_OneEntryPerPosition ==
    /\ ctl # "raised"
    /\ ctl = "returned" =>
          /\ Cardinality(DOMAIN results) = Len(positions)
          /\ \A i \in 1..Len(positions) : positions[i].ticker \in DOMAIN results
          /\ \A t \in DOMAIN results : results[t].ticker = t

\* The run of position i failed totally: chain.invoke raised, or the
\* extraction or the construction of the result did.
TotalFailure(i) ==
    /\ tpc[i] \in {"done", "failed"}
    /\ \/ ExtractionRaises(tst[i])
       \/ ~AnalysisResultValid(BASE_CONFIDENCE, AnalysisData(tst[i]))

\* C3: a run that fails totally is caught and recorded for its ticker as a
\* low-confidence AnalysisResult, and analyze_portfolio_async never ends with
\* an unhandled error.
C3_FailureRecorded ==
    /\ \A i \in 1..Len(positions) :
          TotalFailure(i) =>
              /\ ~tres[i].raises
              /\ tres[i].value.ticker = positions[i].ticker
              /\ tres[i].value.confidence < BASE_CONFIDENCE
    /\ ctl # "raised"

C4_ClaimedOrder ==
    <<"generate_market_news", "generate_news", "grade_news", "moex_news",
      "make_trade_analysis", "ifrs_analysis", "final_analysis">>

\* C4: within one run the stages execute in the order generate_market_news,
\* generate_news, grade_news, moex_news, make_trade_analysis, ifrs_analysis,
\* final_analysis: the stages run so far are always a prefix of that order
\* (none repeated, none skipped), the next stage to run is the next of the
\* order, and a run that has ended has run all seven.
C4_StageOrder ==
    /\ Len(trace) <= Len(C4_ClaimedOrder)
    /\ trace = SubSeq(C4_ClaimedOrder, 1, Len(trace))
    /\ pc \in {"END", "done"} => trace = C4_ClaimedOrder
    /\ pc \notin {"idle", "START", "END", "RAISED", "done"}
          => /\ Len(trace) < Len(C4_ClaimedOrder)
             /\ pc = C4_ClaimedOrder[Len(trace) + 1]

\* a run under the concurrent controller ended after all seven stages although
\* stage 2 and stage 4 degraded
C4_Witness ==
    /\ mode = "async"
    /\ pc = "done"
    /\ trace = C4_ClaimedOrder
    /\ st.semantic = GRADE_NO_NEWS
    /\ st.moex_data = MOEX_ERROR

C5_PlaceholderStrings == StagePlaceholders

\* C5 as stated: no stage raises, a stage whose collaborator failed has set its
\* output field to a placeholder string, and the run reaches final_analysis
\* and ends.
C5_Original ==
    /\ pc # "RAISED"
    /\ \A i \in 1..Len(errors) : st[errors[i].field] \in C5_PlaceholderStrings
    /\ pc = "done" => trace[Len(trace)] = "final_analysis"
    /\ pc # "done" => ENABLED NextPipeline

\* C5, amended: no stage raises; a stage whose except branch ran has set its
\* own output field to its fixed placeholder string, except generate_news,
\* whose degraded output is the empty list; the run always goes on to
\* final_analysis and ends.
C5_StagesDegrade ==
    /\ pc # "RAISED"
    /\ \A i \in 1..Len(errors) :
          IF errors[i].node = "generate_news"
          THEN errors[i].field = "news" /\ st.news = ListV(<<>>)
          ELSE st[errors[i].field] \in C5_PlaceholderStrings
    /\ pc = "done" => trace[Len(trace)] = "final_analysis"
    /\ pc # "done" => ENABLED NextPipeline

\* every fetch failed and the final AI call raised, and the run ended
C5_Witness ==
    /\ pc = "done"
    /\ Len(errors) >= 5
    /\ st.final_data = FINAL_ERROR
    /\ st.news = ListV(<<>>)
    /\ st.moex_data = MOEX_ERROR

HasPiece(v, piece) == \E i \in 1..Len(v.pieces) : v.pieces[i] = piece

C6_Expected ==
    IF HasPiece(text, BUY) /\ HasPiece(text, SELL) THEN {BUY}
    ELSE IF HasPiece(text, SELL) THEN {SELL}
    ELSE IF ~HasPiece(text, BUY) THEN {HOLD}
    ELSE {BUY, SELL, HOLD}

\* C6: the recommendation extracted from a final-decision text, by
\* analyze_portfolio and by _analyze_single alike, is BUY when the text holds
\* both the BUY and the SELL token, SELL when it holds only the SELL token,
\* and HOLD when it holds neither.
C6_Extraction ==
    /\ recSeq # "unset" => recSeq \in C6_Expected
    /\ recAsync # "unset" => recAsync \in C6_Expected

C6_Witness ==
    /\ HasPiece(text, BUY) /\ HasPiece(text, SELL)
    /\ recSeq = BUY
    /\ recAsync = BUY

RECURSIVE SumOver(_, _)
SumOver(S, f) ==
    IF S = {} THEN 0
    ELSE LET x == CHOOSE y \in S : TRUE
         IN  f[x] + SumOver(S \ {x}, f)

ResultKeys == {analysis_results[k].ticker : k \in 1..Len(analysis_results)}
RecommendedOf(t) ==
    analysis_results[CHOOSE k \in 1..Len(analysis_results) :
                         analysis_results[k].ticker = t].recommendation
SellKeys == {t \in ResultKeys : RecommendedOf(t) = SELL}
BuyKeys == {t \in ResultKeys : RecommendedOf(t) = BUY}
Sold == {t \in DOMAIN rebalancing_suggestions : rebalancing_suggestions[t].verb = "Prodat"}
Bought == {t \in DOMAIN rebalancing_suggestions : rebalancing_suggestions[t].verb = "Kupit"}

\* price * qty * 0.9994 * 0.85 in millionths
C7_SoldProceeds ==
    [t \in Sold |-> lookups[t].price * rebalancing_suggestions[t].number * 9994 * 85]

\* C7: the sell phase is over before the buy phase starts: whenever the buy
\* loop is running or over, every ticker recommended SELL has its action and
\* the pool the buy phase started from holds the starting cash and the
\* after-fee-and-tax proceeds of every sell.
C7_SellsBeforeBuys ==
    rpc \in {"buy", "raised"} \/ (rpc = "returned" /\ analysis_results # <<>>) =>
        /\ SellKeys \subseteq DOMAIN rebalancing_suggestions
        /\ \A t \in SellKeys :
              rebalancing_suggestions[t].verb \in
                  {"Prodat", "Poziciya otsutstvuet", "Cena nedostupna"}
        /\ \A t \in SellKeys :
              /\ ~PositionMissing(portfolio, t)
              /\ t \in DOMAIN lookups
              /\ ~lookups[t].raises
              => t \in Sold
        /\ buy_start_cash = portfolio.cash_rub * MICRO + SumOver(Sold, C7_SoldProceeds)

\* a buy was sized after two sells whose proceeds are in the pool
C7_Witness ==
    /\ rpc = "buy"
    /\ Cardinality(Sold) = 2
    /\ Bought # {}
    /\ buy_start_cash > portfolio.cash_rub * MICRO

\* The sell loop is at an item recommended SELL.
AtSell == rpc = "sell" /\ idx <= Len(analysis_results)
              /\ analysis_results[idx].recommendation = SELL
SellTicker == analysis_results[idx].ticker

\* C8: a sell-loop step for a ticker recommended SELL that is held with a
\* quantity q > 0 and whose price lookup returns p records "Продать {q}" and
\* adds exactly p*q*(1-0.0006)*(1-0.15) to the cash pool.
C8_SellWholePosition ==
    [][(/\ AtSell
        /\ HasPosition(portfolio, SellTicker)
        /\ get_position(portfolio, SellTicker).quantity > 0
        /\ SellTicker \in DOMAIN lookups'
        /\ ~lookups'[SellTicker].raises)
       => LET q == get_position(portfolio, SellTicker).quantity
              p == lookups'[SellTicker].price
          IN  /\ rebalancing_suggestions'[SellTicker] = [verb |-> "Prodat", number |-> q]
              /\ cash' - cash = p * q * 9994 * 85]_vars

\* two shares sold at a price of 2: 2*2*0.9994*0.85 = 3.39796
C8_Witness ==
    /\ rpc = "sell"
    /\ \E t \in Sold :
          /\ rebalancing_suggestions[t].number = 2
          /\ lookups[t].price = 2
    /\ cash = portfolio.cash_rub * MICRO + 3397960

\* C9: a sell-loop step for a ticker recommended SELL that has no position, or
\* a position of quantity 0, records "Позиция отсутствует", leaves the cash
\* pool as it is and looks no price up.
C9_AbsentPosition ==
    [][(/\ AtSell
        /\ \/ ~HasPosition(portfolio, SellTicker)
           \/ get_position(portfolio, SellTicker).quantity = 0)
       => /\ rebalancing_suggestions'[SellTicker] =
                 [verb |-> "Poziciya otsutstvuet", number |-> 0]
          /\ cash' = cash
          /\ lookups' = lookups]_vars

\* both cases happened: a ticker without a position and one held with quantity 0
C9_Witness ==
    /\ \E t \in SellKeys :
          /\ ~HasPosition(portfolio, t)
          /\ t \in DOMAIN rebalancing_suggestions
          /\ rebalancing_suggestions[t].verb = "Poziciya otsutstvuet"
    /\ \E t \in SellKeys :
          /\ HasPosition(portfolio, t)
          /\ get_position(portfolio, t).quantity = 0
          /\ t \in DOMAIN rebalancing_suggestions
          /\ rebalancing_suggestions[t].verb = "Poziciya otsutstvuet"
    /\ lookups = NoLookups
    /\ rpc = "buy"

\* C10: with C the pool at the start of the buy phase and n the number of
\* tickers recommended BUY, every buy candidate whose price lookup succeeded
\* (with a price > 0) was given the quantity floor((C/n) / (price*1.0006)),
\* whatever earlier buys consumed.
C10_ShareFixedUpFront ==
    \A t \in BuyKeys :
        /\ rpc \in {"buy", "returned"}
        /\ t \in DOMAIN rebalancing_suggestions
        /\ t \in DOMAIN lookups
        /\ ~lookups[t].raises
        /\ lookups[t].price > 0
        => LET q == buy_start_cash \div (Cardinality(BuyKeys) * lookups[t].price * 1000600)
           IN  rebalancing_suggestions[t] =
                   IF q > 0 THEN [verb |-> "Kupit", number |-> q]
                   ELSE [verb |-> "Nedostatochno sredstv", number |-> 0]

\* The buy loop is at a candidate.
AtBuy == rpc = "buy" /\ idx <= Len(buy_tickers)
BuyTicker == buy_tickers[idx]

\* C11: a buy-loop step for a candidate whose price lookup returned a price
\* p > 0: when the whole-share quantity computed for it is 0 it records
\* "Недостаточно средств" and leaves the cash pool as it is; when the
\* quantity is qty >= 1 it records "Купить {qty}" and the cash pool goes down
\* by exactly qty*p*(1+0.0006).
C11_BuyOutcome ==
    [][(/\ AtBuy
        /\ BuyTicker \in DOMAIN lookups'
        /\ ~lookups'[BuyTicker].raises
        /\ lookups'[BuyTicker].price > 0)
       => LET p == lookups'[BuyTicker].price
              qty == cash \div (Len(buy_tickers) * p * 1000600)
          IN  IF qty = 0
              THEN /\ rebalancing_suggestions'[BuyTicker] =
                          [verb |-> "Nedostatochno sredstv", number |-> 0]
                   /\ cash' = cash
              ELSE /\ qty >= 1
                   /\ rebalancing_suggestions'[BuyTicker] =
                          [verb |-> "Kupit", number |-> qty]
                   /\ cash - cash' = qty * p * 1000600]_vars

\* one candidate was bought and paid for, the next could not afford a share
C11_Witness ==
    /\ rpc = "buy"
    /\ \E t \in Bought :
          cash = buy_start_cash
                     - rebalancing_suggestions[t].number * lookups[t].price * 1000600
    /\ \E t \in BuyKeys :
          /\ t \in DOMAIN rebalancing_suggestions
          /\ rebalancing_suggestions[t].verb = "Nedostatochno sredstv"

\* qty * price * 1.0006 in millionths
C12_BoughtCosts ==
    [t \in Bought |-> rebalancing_suggestions[t].number * lookups[t].price * 1000600]

C12_Balance ==
    portfolio.cash_rub * MICRO + SumOver(Sold, C7_SoldProceeds)
        - SumOver(Bought, C12_BoughtCosts)

\* C12: the plan returned for a non-empty recommendation set has the entry
\* "RUB": "Остаток {r}", r being the starting cash plus the after-tax proceeds
\* of the executed sells minus the costs of the executed buys, rounded to the
\* nearest integer.
C12_Remainder ==
    rpc = "returned" /\ analysis_results # <<>> =>
        /\ "RUB" \in DOMAIN rebalancing_suggestions
        /\ rebalancing_suggestions["RUB"].verb = "Ostatok"
        /\ LET r == rebalancing_suggestions["RUB"].number
           IN  /\ 2 * (r * MICRO - C12_Balance) <= MICRO
               /\ 2 * (C12_Balance - r * MICRO) <= MICRO

\* a plan with a sell and a buy executed whose balance is rounded up
C12_Witness ==
    /\ rpc = "returned"
    /\ Sold # {}
    /\ Bought # {}
    /\ 2 * (C12_Balance % MICRO) > MICRO
    /\ rebalancing_suggestions["RUB"].number * MICRO > C12_Balance

\* The ticker the running loop is at.
LoopTicker ==
    IF rpc = "sell" THEN analysis_results[idx].ticker ELSE buy_tickers[idx]
AtLoopItem ==
    \/ rpc = "sell" /\ idx <= Len(analysis_results)
    \/ rpc = "buy" /\ idx <= Len(buy_tickers)

\* C13: a step of the sell loop or of the buy loop whose price lookup throws
\* records "Цена недоступна" for that ticker and for no other, leaves the cash
\* pool as it is, and the loop goes on with its next item (the call is not
\* aborted), so that the later tickers and phases are still processed.
C13_LookupFailureIsolated ==
    [][(/\ AtLoopItem
        /\ LoopTicker \in DOMAIN lookups'
        /\ LoopTicker \notin DOMAIN lookups
        /\ lookups'[LoopTicker].raises)
       => /\ rebalancing_suggestions'[LoopTicker] =
                 [verb |-> "Cena nedostupna", number |-> 0]
          /\ \A t \in DOMAIN rebalancing_suggestions :
                rebalancing_suggestions'[t] = rebalancing_suggestions[t]
          /\ DOMAIN rebalancing_suggestions' =
                 DOMAIN rebalancing_suggestions \cup {LoopTicker}
          /\ cash' = cash
          /\ rpc' = rpc
          /\ idx' = idx + 1]_vars

\* a lookup failed in each phase and the plan was still returned, with a sell
\* and a buy executed after the failures
C13_Witness ==
    /\ rpc = "returned"
    /\ \E t \in SellKeys : t \in DOMAIN lookups /\ lookups[t].raises
                               /\ rebalancing_suggestions[t].verb = "Cena nedostupna"
    /\ \E t \in BuyKeys : t \in DOMAIN lookups /\ lookups[t].raises
                              /\ rebalancing_suggestions[t].verb = "Cena nedostupna"
    /\ "RUB" \in DOMAIN rebalancing_suggestions

\* The invocations of the wrapped function so far, in order, and the sleeps.
Invocations == SelectSeq(retry_events, LAMBDA ev : ev.event = "call")
Sleeps == SelectSeq(retry_events, LAMBDA ev : ev.event = "sleep")
TransientFailure(ev) ==
    ev.got.raises /\ ev.got.error.class \in {"RequestException", "ConnectionError"}

\* C14: with max_retries = m >= 1, a call in which every invocation of the
\* wrapped function failed with a transient error has invoked it exactly m
\* times, has slept between consecutive invocations and not after the last
\* one, and has raised APIError carrying m and the last invocation's error.
C14_Exhausted ==
    /\ retry_pc = "done"
    /\ max_retries >= 1
    /\ \A k \in 1..Len(Invocations) : TransientFailure(Invocations[k])
    => /\ Len(Invocations) = max_retries
       /\ Len(retry_events) = 2 * max_retries - 1
       /\ \A k \in 1..Len(retry_events) :
             IF k % 2 = 1 THEN retry_events[k].event = "call"
             ELSE retry_events[k] = [event |-> "sleep", seconds |-> delay]
       /\ retry_outcome =
              [kind |-> "raise",
               error |-> [class |-> "APIError", attempts |-> max_retries,
                          cause |-> Invocations[max_retries].got.error]]

\* three transient failures out of three attempts
C14_Witness ==
    /\ retry_pc = "done"
    /\ max_retries = 3
    /\ Len(Invocations) = 3
    /\ \A k \in 1..3 : TransientFailure(Invocations[k])
    /\ Len(Sleeps) = 2
    /\ delay = 1

\* C15: once an invocation of the wrapped function has failed with an error
\* that is not transient, that invocation is the last thing the wrapper did
\* (no sleep, no further invocation) and the caller has received that very
\* error, of its own class.
C15_NonTransientPropagates ==
    \A k \in 1..Len(retry_events) :
        /\ retry_events[k].event = "call"
        /\ retry_events[k].got.raises
        /\ ~TransientFailure(retry_events[k])
        => /\ k = Len(retry_events)
           /\ retry_pc = "done"
           /\ retry_outcome = [kind |-> "raise", error |-> retry_events[k].got.error]

\* a ValueError at the second invocation, after one transient failure
C15_Witness ==
    /\ Len(Invocations) = 2
    /\ TransientFailure(Invocations[1])
    /\ Invocations[2].got.raises
    /\ Invocations[2].got.error.class = "ValueError"
    /\ retry_outcome.kind = "raise"
    /\ retry_outcome.error.class = "ValueError"

\* C16: once invocation k of the wrapped function has returned, after k-1
\* transient failures, with k <= max_retries, the wrapper has returned that
\* value unchanged, the function has been invoked exactly k times and nothing
\* follows the successful invocation.
C16_ReturnsFirstSuccess ==
    \A k \in 1..Len(Invocations) :
        ~Invocations[k].got.raises
        => /\ k <= max_retries
           /\ Len(Invocations) = k
           /\ \A j \in 1..(k - 1) : TransientFailure(Invocations[j])
           /\ retry_events[Len(retry_events)] = Invocations[k]
           /\ retry_pc = "done"
           /\ retry_outcome = [kind |-> "return", value |-> Invocations[k].got.value]

\* success at the third invocation out of three
C16_Witness ==
    /\ Len(Invocations) = 3
    /\ ~Invocations[3].got.raises
    /\ Invocations[3].got.value.kind = "str"
    /\ retry_outcome.kind = "return"

\* The samples a history holds.
SamplesOf(times) == {times[k] : k \in 1..Len(times)}

\* C17: an instrumented call records exactly one execution-time sample (the
\* newest of the history), adds one to exactly one of the service's success
\* and error counters (success when the wrapped call returned, error when it
\* raised) and hands the caller what the wrapped call returned or raised.
C17_RecordedOnce ==
    [][clock' # clock =>
        LET success == <<"ai_service", "success">>
            error == <<"ai_service", "error">>
            inc(key) == Get(counters', key) - Get(counters, key)
        IN  /\ Cardinality(SamplesOf(execution_times') \ SamplesOf(execution_times)) = 1
            /\ execution_times'[Len(execution_times')] \notin SamplesOf(execution_times)
            /\ Len(execution_times') \in {Len(execution_times), Len(execution_times) + 1}
            /\ IF last_call'.did.raises
               THEN inc(error) = 1 /\ inc(success) = 0
               ELSE inc(success) = 1 /\ inc(error) = 0
            /\ \A key \in DOMAIN counters' \ {success, error} :
                  key \in DOMAIN counters /\ counters'[key] = counters[key]
            /\ last_call'.handed = last_call'.did]_vars

\* calls of both outcomes were counted, the last one raised
C17_Witness ==
    /\ clock = 3
    /\ Get(counters, <<"ai_service", "success">>) = 2
    /\ Get(counters, <<"ai_service", "error">>) = 1
    /\ last_call.kind = "call"
    /\ last_call.handed.raises

\* C18: the retained history never holds more than 100 samples, and it holds
\* the most recently recorded ones in the order they were recorded: once 100
\* are held, each new one evicts the oldest.
C18_BoundedFifo ==
    LET kept == IF clock < 100 THEN clock ELSE 100
    IN  /\ Len(execution_times) <= 100
        /\ execution_times = [k \in 1..kept |-> clock - kept + k]

\* 102 samples recorded: the first two are gone
C18_Witness ==
    /\ clock = 102
    /\ Len(execution_times) = 100
    /\ execution_times[1] = 3
    /\ execution_times[100] = 102

\* C19: when all the threads have finished their instrumented calls, the
\* success counter has gone up by the number of calls that returned, the error
\* counter and the error-class count by the number that raised, and every
\* appended sample has reached the history.
C19_NoLostUpdate ==
    (\A t \in Threads : thread_pc[t] = "done") /\ Threads # {} =>
        LET n == Cardinality(Threads)
            before == clock - n
            raised == Cardinality({t \in Threads : thread_outcome[t].raises})
        IN  /\ Get(counters, <<"ai_service", "success">>) = before + (n - raised)
            /\ Get(counters, <<"ai_service", "error">>) = raised
            /\ Get(monitor_errors, <<"ai_service", "ValueError">>) = raised
            /\ clock \in SamplesOf(execution_times)

\* What C20 expects of a ticker and a quantity: rejected when the ticker has
\* fewer than 3 characters or the quantity is negative, else the position
\* with the ticker in upper case.
C20_Rejected == Len(in_ticker) < 3 \/ in_quantity < 0
C20_Position == [ticker |-> upper(in_ticker), quantity |-> in_quantity]

\* C20: PortfolioPosition(ticker, quantity), and Portfolio.from_dict for a
\* ticker entry, fail with a validation error when the ticker is shorter than
\* 3 characters (the empty one included) or the quantity is negative, and
\* otherwise build the position with the ticker in upper case and the
\* quantity as given, 0 included.
C20_PositionValidated ==
    /\ built.kind # "none" =>
          IF C20_Rejected THEN built.kind = "ValidationError"
          ELSE built = [kind |-> "built", value |-> C20_Position]
    /\ built_from_dict.kind # "none" /\ in_ticker # <<"R", "U", "B">> =>
          IF C20_Rejected THEN built_from_dict.kind = "ValidationError"
          ELSE /\ built_from_dict.kind = "built"
               /\ built_from_dict.value.positions = <<C20_Position>>

\* a lower-case ticker with quantity 0 was built both ways, in upper case
C20_Witness ==
    /\ in_ticker = <<"a", "a", "1">>
    /\ in_quantity = 0
    /\ built = [kind |-> "built",
                value |-> [ticker |-> <<"A", "A", "1">>, quantity |-> 0]]
    /\ built_from_dict.kind = "built"

\* C21: AnalysisResult construction fails for a confidence outside [0, 1] and
\* succeeds for one inside, 0.0 and 1.0 included, keeping the value as given;
\* the two confidences the analyzers pass, 0.8 and 0.0, are inside.
C21_ConfidenceRange ==
    /\ built_result.kind # "none" =>
          IF in_confidence < 0 \/ in_confidence > 10
          THEN built_result.kind = "ValidationError"
          ELSE /\ built_result.kind = "built"
               /\ built_result.value.confidence = in_confidence
    /\ \A c \in {BASE_CONFIDENCE, ERROR_CONFIDENCE} :
          /\ 0 <= c /\ c <= 10
          /\ NewAnalysisResult(<<"A", "A", "A">>, HOLD, c, NoData).kind = "built"

\* a result was built with confidence 1.0
C21_Witness ==
    /\ in_confidence = 10
    /\ built_result.kind = "built"
    /\ built_result.value.confidence = 10

\* C22: a grade_news step that finds the news list of stage 2 empty sets
\* semantic to "Нет новостей для анализа" and calls no collaborator.
C22_NoNewsShortCircuit ==
    [][pc = "grade_news" /\ st.news = [kind |-> "list", pieces |-> <<>>]
       => /\ st'.semantic = [kind |-> "str", pieces |-> <<"Net novostej dlya analiza">>]
          /\ calls' = calls
          /\ errors' = errors]_vars

\* stage 2 failed, stage 3 short-circuited, the run went on to its end
C22_Witness ==
    /\ pc = "done"
    /\ st.news = ListV(<<>>)
    /\ st.semantic = GRADE_NO_NEWS
    /\ \E k \in 1..Len(errors) : errors[k].node = "generate_news"
    /\ \A k \in 1..Len(errors) : errors[k].node # "grade_news"

\* C23: a make_trade_analysis step that finds the sentinel "Ошибка получения
\* данных MOEX" in moex_data sets moex_data_analysis to "Невозможно провести
\* технический анализ" and calls no collaborator; when stage 4 succeeded the
\* step fetches the recent data and does not put out that placeholder.
C23_TradeShortCircuit ==
    [][pc = "make_trade_analysis" =>
        IF st.moex_data = [kind |-> "str",
                           pieces |-> <<"Oshibka polucheniya dannyh", " MOEX">>]
        THEN /\ st'.moex_data_analysis =
                    [kind |-> "str",
                     pieces |-> <<"Nevozmozhno provesti tehnicheskij analiz">>]
             /\ calls' = calls
        ELSE /\ Len(calls') > Len(calls)
             /\ calls'[Len(calls) + 1] = "get_recent_data"
             /\ st'.moex_data_analysis #
                    [kind |-> "str",
                     pieces |-> <<"Nevozmozhno provesti tehnicheskij analiz">>]]_vars

\* stage 4 failed and stage 5 short-circuited
C23_Witness ==
    /\ pc = "ifrs_analysis"
    /\ st.moex_data = MOEX_ERROR
    /\ st.moex_data_analysis = TRADE_IMPOSSIBLE
    /\ calls[Len(calls)] = "get_ticker_data"

\* C30: an ifrs_analysis step whose report fetch returned skips the AI call
\* exactly when the report is the sentinel "Отчетность МСФО не найдена": the
\* output of a step that made no AI call is that sentinel, and a step that
\* put out the sentinel made no AI call.
C30_SentinelByEquality ==
    [][pc = "ifrs_analysis" /\ errors' = errors
       => (calls' = Append(calls, "get_ifrs_data")
             <=> st'.ifrs_data = [kind |-> "str",
                                  pieces |-> <<"Otchetnost MSFO ", "ne najdena">>])]_vars

\* C24: for the portfolio {AAA: 10, BBB: 5, RUB: 1000} with AAA recommended
\* SELL at price 100 and BBB recommended BUY at price 10 the returned plan is
\* AAA "Продать 10", BBB "Купить 184" and RUB "Остаток 8": 184 is the floor
\* of (1000 + 100*10*0.9994*0.85) / 10.006 and 8 the rounded remainder
\* 1849.49 - 184*10*1.0006 = 8.386.
C24_Scenario ==
    (/\ rpc = "returned"
     /\ analysis_results = <<[ticker |-> "AAA", recommendation |-> SELL],
                             [ticker |-> "BBB", recommendation |-> BUY]>>
     /\ portfolio = [positions |-> <<[ticker |-> "AAA", quantity |-> 10],
                                     [ticker |-> "BBB", quantity |-> 5]>>,
                     cash_rub |-> 1000])
    => /\ DOMAIN rebalancing_suggestions = {"AAA", "BBB", "RUB"}
       /\ rebalancing_suggestions["AAA"] = [verb |-> "Prodat", number |-> 10]
       /\ rebalancing_suggestions["BBB"] = [verb |-> "Kupit", number |-> 184]
       /\ rebalancing_suggestions["RUB"] = [verb |-> "Ostatok", number |-> 8]
       /\ 184 = (1000000000 + 849490000) \div 10006000
       /\ cash = 1000000000 + 849490000 - 184 * 10006000

\* the scenario of the test has run to its return
C24_Witness ==
    /\ rpc = "returned"
    /\ analysis_results = <<[ticker |-> "AAA", recommendation |-> SELL],
                            [ticker |-> "BBB", recommendation |-> BUY]>>
    /\ portfolio.cash_rub = SCENARIO_CASH
    /\ portfolio.positions[1].quantity = SCENARIO_AAA_QUANTITY
    /\ portfolio.positions[2].quantity = SCENARIO_BBB_QUANTITY
    /\ "RUB" \in DOMAIN rebalancing_suggestions

\* The run of position j is over and every one of the seven stages has set
\* its field of the state.
C25_RanAllStages(j) ==
    /\ tpc[j] \in {"done", "failed"}
    /\ \A f \in {"market_news", "news", "semantic", "moex_data",
                 "moex_data_analysis", "ifrs_data", "final_data"} :
          tst[j][f] # [kind |-> "str", pieces |-> <<>>]

C25_SomeFailed == \E i \in 1..Len(positions) : tpc[i] = "failed"

C26_AllFinishedAtHandBack ==
    ctl \in {"returned", "raised"} =>
        \A i \in 1..Len(positions) : tpc[i] \in {"done", "failed"}

C28_FailedIteration(i) ==
    /\ ctl = "looping"
    /\ tpc[i] \in {"END", "RAISED"}
    /\ tpc'[i] = "done"
    /\ \/ tpc[i] = "RAISED"
       \/ tst[i].final_data.kind = "none"

C29_TransientRequestRetried ==
    (/\ retry_pc = "done"
     /\ wrapped \in {"call_deepseek", "get_market_news", "get_ticker_news",
                     "get_ticker_data"}
     /\ request_log # <<>>
     /\ request_log[Len(request_log)].raises
     /\ request_log[Len(request_log)].error.class
            \in {"RequestException", "ConnectionError"})
    => Len(request_log) = max_retries

\* What generate_market_news does in the state at hand when the fetch
\* returns `items` and the AI call, if made, returns `answer`.
C31_Stage(items, answer) ==
    generate_market_news(st, [DefaultEnv EXCEPT
                                 !.market_fetch = [raises |-> FALSE, value |-> items],
                                 !.ai_market = [raises |-> FALSE, value |-> answer]])

\* C31: generate_market_news, whenever it runs: if the fetch returns no
\* items the output is "Недостаточно свежих новостей для анализа" and the
\* only call is the fetch; if it returns at least one item, one AI call
\* follows the fetch and what it returns is the output.  The step taken
\* makes at most one AI call and puts the placeholder out exactly when it
\* made none and logged no error.
C31_MarketNewsStage ==
    [][pc = "generate_market_news" =>
          /\ \A answer \in {[kind |-> "str", pieces |-> <<"analysis">>],
                            [kind |-> "str", pieces |-> <<"Oshibka analiza">>],
                            [kind |-> "none", pieces |-> <<>>]} :
                /\ C31_Stage([kind |-> "list", pieces |-> <<>>], answer).value =
                       [kind |-> "str",
                        pieces |-> <<"Nedostatochno svezhih novostej dlya analiza">>]
                /\ C31_Stage([kind |-> "list", pieces |-> <<>>], answer).calls =
                       <<"get_market_news">>
                /\ C31_Stage([kind |-> "list", pieces |-> <<"post">>], answer).value = answer
                /\ C31_Stage([kind |-> "list", pieces |-> <<"post">>], answer).calls =
                       <<"get_market_news", "call_deepseek">>
          /\ calls' \in {calls \o <<"get_market_news">>,
                         calls \o <<"get_market_news", "call_deepseek">>}
          /\ (st'.market_news = [kind |-> "str",
                                 pieces |-> <<"Nedostatochno svezhih novostej dlya analiza">>])
                 <=> (calls' = calls \o <<"get_market_news">> /\ errors' = errors)]_vars

\* the fetch returned nothing: the placeholder is out and the AI was not asked
C31_Witness ==
    /\ pc = "generate_news"
    /\ st.market_news = MARKET_NO_NEWS
    /\ calls = <<"get_market_news">>
    /\ errors = <<>>

\* C32 as stated: every summary placed into the final prompt is at most 300
\* characters long.
C32_Original ==
    prompt_summary.set => Len(prompt_summary.text) <= 300

\* C32: every summary placed into the final prompt is at most 303 characters
\* long: a stage output of at most 300 characters goes in as it is, a longer
\* one as its first 300 characters followed by "...".
C32_SummaryLength ==
    prompt_summary.set =>
        /\ Len(prompt_summary.text) <= 303
        /\ IF Len(stage_text) <= 300
           THEN prompt_summary.text = stage_text
           ELSE /\ Len(prompt_summary.text) = 303
                /\ \A i \in 1..300 : prompt_summary.text[i] = stage_text[i]
                /\ \A i \in 301..303 : prompt_summary.text[i] = "."

\* a stage output longer than the limit has been cut
C32_Witness ==
    /\ prompt_summary.set
    /\ Len(stage_text) > SUMMARY_LIMIT + Len(ELLIPSIS)
    /\ Len(prompt_summary.text) = SUMMARY_LIMIT + Len(ELLIPSIS)

\* C33: every plan that suggest_rebalancing returns has the entry "RUB",
\* the plan for the empty recommendation set included.
C33_AlwaysResidual ==
    rpc = "returned" => "RUB" \in DOMAIN rebalancing_suggestions

C36_NeverAborts == rpc # "raised"

\* C38: no step of suggest_rebalancing changes the portfolio (its cash_rub,
\* its positions' tickers and quantities) or the recommendation mapping.
C38_InputsUnchanged ==
    [][portfolio' = portfolio /\ analysis_results' = analysis_results]_vars

\* a plan whose cash projection differs from the portfolio's cash
C38_Witness ==
    /\ rpc = "returned"
    /\ Sold # {}
    /\ Bought # {}
    /\ cash # portfolio.cash_rub * MICRO
    /\ rebalancing_suggestions["RUB"].number # portfolio.cash_rub

\* C39: the cash pool is never negative, and a buy at a positive price costs
\* no more than cash / buy_count, the share it was sized against.
C39_CashConstraint ==
    /\ [](cash >= 0)
    /\ [][(/\ rpc = "buy" /\ idx <= Len(buy_tickers)
           /\ buy_tickers[idx] \in DOMAIN lookups'
           /\ ~lookups'[buy_tickers[idx]].raises
           /\ lookups'[buy_tickers[idx]].price > 0)
          => /\ cash' <= cash
             /\ (cash - cash') * Len(buy_tickers) <= cash]_vars

\* the first of two buy candidates was bought out of its half of the pool
C39_Witness ==
    /\ rpc = "buy"
    /\ Len(buy_tickers) = 2
    /\ idx = 2
    /\ cash < buy_start_cash
    /\ 2 * (buy_start_cash - cash) <= buy_start_cash
    /\ portfolio.cash_rub * MICRO < buy_start_cash

\* The items of the recommendation mapping in the opposite iteration order.
C35_Reversed ==
    [k \in 1..Len(analysis_results) |->
        analysis_results[Len(analysis_results) + 1 - k]]

\* C35: the plan returned (the quantity bought per ticker, the residual
\* cash) is the plan the same call returns when the recommendation mapping
\* iterates in the opposite order, the portfolio and the prices being the
\* same.
C35_OrderIndependent ==
    rpc = "returned" =>
        suggest_rebalancing(C35_Reversed, portfolio, price_getter).plan
            = rebalancing_suggestions

\* C37: the positions of every Portfolio that was built, by Portfolio(...) or
\* by Portfolio.from_dict, have pairwise different tickers.
C37_DistinctTickers ==
    built_portfolio.kind = "built" =>
        \A i \in 1..Len(built_portfolio.value.positions) :
            \A j \in 1..Len(built_portfolio.value.positions) :
                i # j => built_portfolio.value.positions[i].ticker
                             # built_portfolio.value.positions[j].ticker

\* C40: when analyze_portfolio_async returns, for every order in which the
\* tasks ran and every number of permits, its mapping is the mapping
\* analyze_portfolio builds for the same positions and the same answers of
\* the outside world: the same tickers, and for each ticker the same
\* recommendation, confidence and analysis_data, none of them an error record.
C40_SameMapping ==
    ctl = "returned" =>
        /\ results = analyze_portfolio(positions, scenario)
        /\ \A t \in DOMAIN results : results[t].confidence = BASE_CONFIDENCE

C40_Witness ==
    /\ ctl = "returned"
    /\ max_concurrent_tasks < Len(positions)
    /\ \E i \in 1..Len(positions) : \E j \in (i + 1)..Len(positions) :
           /\ positions[i].ticker = positions[j].ticker
           /\ tres[i] # tres[j]
    /\ results = analyze_portfolio(positions, scenario)

====
